---- MODULE Spec2Model ----
(***************************************************************************)
(* Verification model of the octanebrew platform services.                 *)
(*                                                                         *)
(* Part I   - ingestion: the pass-1 bus consumer (consumer.py), the oplog  *)
(*            worker of pass 2 (worker.py) and the document store writes   *)
(*            (processors/indexer.py).                    specification Spec *)
(* Part II  - highlight worker: the per-video Redis lock (lock.py) as the  *)
(*            consumer loop uses it (main.py).        specification LockSpec *)
(* Part III - the Redis token-bucket limiter (core/limiter.py).            *)
(*                                                 specification LimiterSpec *)
(* Part IV  - ingestion POST /search (routers/search.py).                  *)
(*                                        specifications SearchSpec, RankSpec *)
(* Part V   - highlight worker: run_highlight_job from consolidation on    *)
(*            (job.py, consolidation.py).             specification JobSpec *)
(* Part VI  - catalyst: the rerank circuit breaker (services/search.py).   *)
(*                                                 specification BreakerSpec *)
(* Part VII - highlight worker: scoring.py.         specification ScoreSpec *)
(* Part VIII- catalyst limiter script beside the ingestion one.            *)
(*                                                    specification TwinSpec *)
(* Part IX  - ingestion: the topic POST /ingest publishes to.              *)
(*                                               specification FairRouteSpec *)
(* Part X   - catalyst: the result cache of search_products.               *)
(*                                                 specification ProductSpec *)
(***************************************************************************)
EXTENDS Integers, Sequences, FiniteSets, TLC

VARIABLES
    \* ---- Part I: ingestion -------------------------------------------
    topic,        \* the bus topic: the sequence of Submissions produced so far
    position,     \* number of records the pass-1 consumer has been handed
    committed,    \* the consumer group's committed offset
    cpc,          \* where the pass-1 consumer is in its loop body
    done,         \* offsets whose upsert and oplog insert both succeeded (history)
    docs,         \* the document store: entity_id -> document
    oplog,        \* table ai_oplog: the sequence of rows, id = index
    wpc,          \* where each oplog worker is in process_batch
    batch,        \* rows returned to each worker by its claim, not yet finished
    rowlock,      \* worker -> the rows whose row lock its claim statement holds
    now,          \* database / wall clock, seconds
    restarts,     \* restarts of the pass-1 consumer so far
    results,      \* the results topic: the events emit_result has published
    failed,       \* upstream calls that failed in the execute_job just run (history)
    \* ---- Part IV: search ----------------------------------------------
    spc,          \* where the search handler is: "idle", "query", "rerank"
    sreq,         \* the SearchRequest being served (or served last)
    smatch,       \* documents matching its query, in the store's ranking order
    sretrieved,   \* the hits elastic.search returned
    sresp,        \* the response: [status, results]
    \* ---- Part II: highlight lock -------------------------------------
    lock,         \* Redis: video_id -> [held, expires_at, by]
    hpc,          \* where each highlight worker is in its loop body
    hvideo,       \* the video of the request each worker is handling
    hmid,         \* the place in hlog of the request each worker is handling
    hlog,         \* one record per request read (history)
    hdeadline,    \* wait_for deadline of the running job
    hnow,         \* wall clock, seconds
    \* ---- Part III: token bucket --------------------------------------
    bucket,       \* Redis hash of one key: [exists, tokens, last_refill, expire_at]
    rt,           \* real time (the Redis server's clock), seconds
    allowed,      \* real times of the calls that were allowed, in order
    calls,        \* check_rate_limit calls made so far
    lresp,        \* the last check_rate_limit call: [redis_ok, outcome]
    \* ---- Part V: highlight job ---------------------------------------
    jpc,          \* where run_highlight_job is: "start", "scored", "clips", "returned", "emitted"
    jin,          \* its inputs: [qualified, cfg]
    jclips,       \* the clips consolidate_clips returned
    jres,         \* its result and the topic consume chose for it
    \* ---- Part VI: rerank circuit breaker (catalyst) -------------------
    rup,          \* the reranker answers
    routages,     \* outages of the reranker so far
    rfail,        \* _rerank_failures
    ropen,        \* _rerank_circuit_open
    rstreak,      \* reranker calls that failed since the last one that succeeded (history)
    rq,           \* each search in _rerank: [pc, hits, top_n, called, results]
    \* ---- Part VII: scoring (highlight worker) --------------------------
    scpc,         \* "start", "scored", "qualified"
    scin,         \* the arguments of compute_scores
    sagg,         \* its result: second -> [total, sig_count]
    squal,        \* qualify_seconds: [threshold, qualified]
    \* ---- Part VIII: the catalyst limiter script next to the ingestion one
    cbucket,      \* the key as the catalyst script leaves it
    cret,         \* what the catalyst script returned for the last call
    \* ---- Part IX: the topics of POST /ingest ----------------------------
    ostopic,      \* the records of OPENSTREAM_KAFKA_TOPIC
    \* ---- Part X: the result cache of search_products (catalyst) --------
    pcache,       \* the value under cache_key: [present, value, es_failed]
    pes,          \* Elasticsearch answers
    presp         \* the last answer of search_products: [status, results, es_failed]

ingestVars == <<topic, position, committed, cpc, done, docs, oplog, wpc, batch,
                rowlock, now, restarts, results, failed>>
lockVars == <<lock, hpc, hvideo, hmid, hlog, hdeadline, hnow>>
limiterVars == <<bucket, rt, allowed, calls, lresp>>
searchVars == <<spc, sreq, smatch, sretrieved, sresp>>
jobVars == <<jpc, jin, jclips, jres>>
breakerVars == <<rup, routages, rfail, ropen, rstreak, rq>>
scoreVars == <<scpc, scin, sagg, squal>>
twinVars == <<cbucket, cret>>
routeVars == <<ostopic>>
productVars == <<pcache, pes, presp>>
vars == <<ingestVars, searchVars, lockVars, limiterVars, jobVars, breakerVars, scoreVars, twinVars, routeVars, productVars>>

(***************************************************************************)
(* Bounds of the model.                                                    *)
(***************************************************************************)
MaxMsgs == 2        \* Submissions produced to the topic
MaxRetry == 2       \* failed executions, over all rows
MaxRestarts == 1    \* restarts of the pass-1 consumer
MaxLimit == 3       \* largest limit of a SearchRequest
MaxTicks == 3       \* clock ticks of the highlight workers
MaxRequests == 2    \* highlight requests read
MaxSecond == 5      \* last second of the videos the highlight job scores
MaxOutages == 2     \* outages of the reranker
MaxCrashes == 1     \* crashes of a highlight worker while it handles one request
MaxDuration == 3    \* longest video compute_scores is given, in seconds
MaxCalls == 4       \* check_rate_limit calls
MaxClock == 2       \* seconds the limiter's clock is stepped through
ClockSkew == 2      \* seconds the second caller's clock is ahead
Capacity == 2       \* capacity the limiter is called with
RefillRate == 1     \* refill rate (tokens per second) it is called with

\* The oplog worker processes.
Workers == {"w1", "w2"}

(***************************************************************************)
(* Program constants.                                                      *)
(***************************************************************************)
EMBEDDING_DIMS == 3072
BATCH_LIMIT == 10
BACKOFF_BASE_SECONDS == 60
LOCK_TTL == 1800
JOB_TIMEOUT_SECONDS == 1800
KEY_TTL == 3600
CATALYST_KEY_TTL == 120
RETRIEVAL_FACTOR == 3
RETRIEVAL_MIN == 20
CIRCUIT_OPEN_THRESHOLD == 3
\* Signal scores and weights are counted in thousandths, their products in
\* millionths, and a reported total in ten-thousandths (round(total, 4)).
SIGNAL_PRESENT == 100        \* signal_score > 0.1
REPORTED_TOTAL == 10000      \* total > 0.01, in millionths
SINGLE_SIGNAL_TOTAL == 3000  \* score >= 0.3, in ten-thousandths

(***************************************************************************)
(* Part I.  Submissions.  A text is represented by the number of chunks    *)
(* the splitter yields for it; 0 is the empty text.                        *)
(***************************************************************************)
Submissions ==
    { [entity_id |-> "e1", text |-> 2, enrichments |-> FALSE, semantic |-> FALSE],
      [entity_id |-> "e1", text |-> 1, enrichments |-> TRUE,  semantic |-> TRUE],
      [entity_id |-> "e2", text |-> 0, enrichments |-> FALSE, semantic |-> FALSE] }

Entities == {s.entity_id : s \in Submissions}

AbsentDoc == [status |-> "absent", content |-> 0, chunks |-> <<>>, summary |-> "none"]

RowIds == 1..Len(oplog)

Min(a, b) == IF a <= b THEN a ELSE b
Max(a, b) == IF a >= b THEN a ELSE b

RECURSIVE Pow2(_)
Pow2(n) == IF n = 0 THEN 1 ELSE 2 * Pow2(n - 1)

RECURSIVE SetToSeq(_)
SetToSeq(S) ==
    IF S = {} THEN <<>>
    ELSE LET m == CHOOSE x \in S : \A y \in S : x <= y
         IN <<m>> \o SetToSeq(S \ {m})

\* TextChunker.split_text: a non-empty text always yields at least one chunk.
split_text(text) == [i \in 1..text |-> i]

(***************************************************************************)
(* POST /ingest: the validated Submission is produced to the topic.        *)
(***************************************************************************)
ingest_content(s) ==
    /\ Len(topic) < MaxMsgs
    /\ topic' = Append(topic, s)
    /\ UNCHANGED <<searchVars, lockVars, limiterVars, jobVars, breakerVars, scoreVars, twinVars, routeVars, productVars, results, failed>>
    /\ UNCHANGED <<position, committed, cpc, done, docs, oplog, wpc, batch,
                   rowlock, now, restarts>>

(***************************************************************************)
(* Pass 1, consume(): one record at a time, manual commit.                 *)
(* cpc: "idle" (waiting for the next record), "upsert", "insert",          *)
(* "commit" (the await the loop body is about to make for topic[position]).*)
(***************************************************************************)
\* async for msg in consumer: the next record is handed over.
Poll ==
    /\ cpc = "idle"
    /\ position < Len(topic)
    /\ position' = position + 1
    /\ cpc' = "upsert"
    /\ UNCHANGED <<searchVars, lockVars, limiterVars, jobVars, breakerVars, scoreVars, twinVars, routeVars, productVars, results, failed>>
    /\ UNCHANGED <<topic, committed, done, docs, oplog, wpc, batch, rowlock,
                   now, restarts>>

\* The document pass 1 writes: client.index replaces the whole document.
doc_body(msg) ==
    [status |-> "processing_vectors", content |-> msg.text, chunks |-> <<>>,
     summary |-> "none"]

upsert_text(d, doc_id, body) == [d EXCEPT ![doc_id] = body]

UpsertOk ==
    /\ cpc = "upsert"
    /\ LET msg == topic[position] IN
        /\ docs' = upsert_text(docs, msg.entity_id, doc_body(msg))
        /\ IF msg.text # 0
              THEN cpc' = "insert" /\ done' = done
              ELSE cpc' = "commit" /\ done' = done \cup {position}
    /\ UNCHANGED <<searchVars, lockVars, limiterVars, jobVars, breakerVars, scoreVars, twinVars, routeVars, productVars, results, failed>>
    /\ UNCHANGED <<topic, position, committed, oplog, wpc, batch, rowlock,
                   now, restarts>>

\* Column defaults of ai_oplog for the columns the INSERT does not give.
OplogDefaults ==
    [status |-> "PENDING", retry_count |-> 0, next_attempt_at |-> now,
     error_message |-> ""]

\* The row of INSERT INTO ai_oplog (entity_id, task_type, payload, target_index).
NewRow(msg) ==
    [entity_id |-> msg.entity_id,
     task_type |-> IF msg.enrichments THEN "enrich" ELSE "embed",
     chunks |-> IF msg.semantic THEN <<>> ELSE split_text(msg.text),
     text |-> msg.text,
     enrichments |-> msg.enrichments,
     status |-> OplogDefaults.status,
     retry_count |-> OplogDefaults.retry_count,
     next_attempt_at |-> OplogDefaults.next_attempt_at,
     error_message |-> OplogDefaults.error_message]

InsertRow(msg) == Append(oplog, NewRow(msg))

InsertOk ==
    /\ cpc = "insert"
    /\ oplog' = InsertRow(topic[position])
    /\ done' = done \cup {position}
    /\ cpc' = "commit"
    /\ UNCHANGED <<searchVars, lockVars, limiterVars, jobVars, breakerVars, scoreVars, twinVars, routeVars, productVars, results, failed>>
    /\ UNCHANGED <<topic, position, committed, docs, wpc, batch, rowlock, now,
                   restarts>>

\* consumer.commit(): commits the position of everything handed over so far.
CommitOffset == position

Commit ==
    /\ cpc = "commit"
    /\ committed' = CommitOffset
    /\ cpc' = "idle"
    /\ UNCHANGED <<searchVars, lockVars, limiterVars, jobVars, breakerVars, scoreVars, twinVars, routeVars, productVars, results, failed>>
    /\ UNCHANGED <<topic, position, done, docs, oplog, wpc, batch, rowlock,
                   now, restarts>>

\* except Exception: log, pass.  Any of the three awaits may raise; the loop
\* goes on to the next record without committing.
HandlerRaises ==
    /\ cpc \in {"upsert", "insert", "commit"}
    /\ cpc' = "idle"
    /\ UNCHANGED <<searchVars, lockVars, limiterVars, jobVars, breakerVars, scoreVars, twinVars, routeVars, productVars, results, failed>>
    /\ UNCHANGED <<topic, position, committed, done, docs, oplog, wpc, batch,
                   rowlock, now, restarts>>

\* The consumer process is restarted (or the group rebalances):
\* consumption resumes from the committed offset.
ConsumerRestart ==
    /\ restarts < MaxRestarts
    /\ restarts' = restarts + 1
    /\ position' = committed
    /\ cpc' = "idle"
    /\ UNCHANGED <<searchVars, lockVars, limiterVars, jobVars, breakerVars, scoreVars, twinVars, routeVars, productVars, results, failed>>
    /\ UNCHANGED <<topic, committed, done, docs, oplog, wpc, batch, rowlock, now>>

(***************************************************************************)
(* Pass 2, JobProcessor.process_batch().                                   *)
(* wpc: "idle", "claiming" (the claim statement holds its row locks),      *)
(* "run" (execute_job of Head(batch) is next), "mark" (execute_job         *)
(* returned), "fail" (an exception was caught for Head(batch)).            *)
(***************************************************************************)
\* The claim's WHERE clause without its status filter.
Claimable_AnyStatus(row) == row.next_attempt_at <= now

\* WHERE status IN ('PENDING', 'RETRY') AND next_attempt_at <= NOW()
Claimable(row) ==
    /\ row.status \in {"PENDING", "RETRY"}
    /\ row.next_attempt_at <= now

\* FOR UPDATE SKIP LOCKED: rows locked by another statement are passed over.
Locked(r) == \E w \in Workers : r \in rowlock[w]

\* The sub-select without FOR UPDATE SKIP LOCKED.
Available_NoSkipLocked(r) == Claimable(oplog[r])

Available(r) == Claimable(oplog[r]) /\ ~Locked(r)

\* The sub-select: locks up to LIMIT available rows.
ClaimSelect(w) ==
    /\ wpc[w] = "idle"
    /\ \E S \in SUBSET {r \in RowIds : Available(r)} :
        /\ S # {}
        /\ Cardinality(S) = Min(BATCH_LIMIT, Cardinality({r \in RowIds : Available(r)}))
        /\ rowlock' = [rowlock EXCEPT ![w] = S]
    /\ wpc' = [wpc EXCEPT ![w] = "claiming"]
    /\ UNCHANGED <<searchVars, lockVars, limiterVars, jobVars, breakerVars, scoreVars, twinVars, routeVars, productVars, results, failed>>
    /\ UNCHANGED <<topic, position, committed, cpc, done, docs, oplog, batch,
                   now, restarts>>

\* UPDATE ... SET status = 'PROCESSING' ... RETURNING id, ..., retry_count
ClaimUpdate(w) ==
    /\ wpc[w] = "claiming"
    /\ LET S == rowlock[w] IN
        /\ oplog' = [r \in RowIds |->
                        IF r \in S THEN [oplog[r] EXCEPT !.status = "PROCESSING"]
                        ELSE oplog[r]]
        /\ batch' = [batch EXCEPT ![w] =
                        [i \in 1..Cardinality(S) |->
                            [id |-> SetToSeq(S)[i],
                             retry_count |-> oplog[SetToSeq(S)[i]].retry_count]]]
        /\ rowlock' = [rowlock EXCEPT ![w] = {}]
    /\ wpc' = [wpc EXCEPT ![w] = "run"]
    /\ UNCHANGED <<searchVars, lockVars, limiterVars, jobVars, breakerVars, scoreVars, twinVars, routeVars, productVars, results, failed>>
    /\ UNCHANGED <<topic, position, committed, cpc, done, docs, now, restarts>>

(***************************************************************************)
(* execute_job.  The AI gateway and the document store are environment:    *)
(* embed answers with one vector per chunk, all of dimension dims, or      *)
(* raises (dims = 0); the summary call never raises (None on failure);     *)
(* the store may be unavailable (es_up = FALSE).                           *)
(***************************************************************************)
\* chunks = payload.get('chunks'); if not chunks and text: chunks = split_text(...)
JobChunks(row) ==
    IF row.chunks = <<>> /\ row.text # 0 THEN split_text(row.text) ELSE row.chunks

\* nested_chunks = [{"text_chunk": txt, "vector": vec} for txt, vec in zip(...)]
NestedChunks(chunks, dims) == [i \in 1..Len(chunks) |-> dims]

\* if "summary" in enrichments and text: summary = generate_summary(...)
WantsSummary(row) == row.enrichments /\ row.text # 0

SummaryOutcomes(row) ==
    IF WantsSummary(row) THEN {"none", "plain", "structured"} ELSE {"none"}

\* A mapping whose chunks.vector does not fix the number of dims.
MappingAccepts_AnyDims(chunks, summary) == summary # "structured"

\* The mapping is created with dynamic = strict, chunks.vector of EMBEDDING_DIMS
\* dims and no key_concepts / entities / language field: the store rejects a
\* partial document that has a vector of another length or an unmapped field.
MappingAccepts(chunks, summary) ==
    /\ \A i \in 1..Len(chunks) : chunks[i] = EMBEDDING_DIMS
    /\ summary # "structured"

\* ElasticManager.update_vectors: doc = {chunks, status: ready [, summary ...]}
\* merged into the stored document by client.update.
update_vectors(d, doc_id, chunks, summary) ==
    [d EXCEPT ![doc_id] =
        [@ EXCEPT !.chunks = chunks,
                  !.status = "ready",
                  !.summary = IF summary = "none" THEN @ ELSE summary]]

\* Whether execute_job raises, given what the environment answers.
JobRaises(d, row, dims, summary, es_up) ==
    \/ dims = 0                                   \* embed_documents raised
    \/ ~es_up                                     \* the store is unavailable
    \/ d[row.entity_id].status = "absent"         \* update of a missing document
    \/ ~MappingAccepts(NestedChunks(JobChunks(row), dims), summary)

\* emit_result: nothing is published without a summary; a failure of the
\* producer is logged and swallowed.
emit_result(topic_, entity_id, summary, bus_up) ==
    IF summary = "none" \/ ~bus_up THEN topic_
    ELSE Append(topic_, [entity_id |-> entity_id, summary |-> summary,
                         status |-> "completed"])

Cur(w) == Head(batch[w])

RECURSIVE SumRetries(_)
SumRetries(n) == IF n = 0 THEN 0 ELSE oplog[n].retry_count + SumRetries(n - 1)

\* Executions that have failed so far, over all rows.
Failures == SumRetries(Len(oplog))

\* The upstream calls of one execute_job that did not succeed: the embedding
\* call; if it was reached, the summary call (generate_summary gave None);
\* if it was reached, the document-store update.
FailedCalls(d, row, dims, summary, es_up) ==
    IF dims = 0 THEN {"embed"}
    ELSE (IF WantsSummary(row) /\ summary = "none" THEN {"summary"} ELSE {})
         \cup (IF JobRaises(d, row, dims, summary, es_up) THEN {"store"} ELSE {})

execute_job(w) ==
    /\ wpc[w] = "run"
    /\ LET row == oplog[Cur(w).id] IN
       \E dims \in {0, EMBEDDING_DIMS, EMBEDDING_DIMS - 1}, es_up \in BOOLEAN :
       \E summary \in SummaryOutcomes(row) :
          /\ failed' = FailedCalls(docs, row, dims, summary, es_up)
          /\ IF JobRaises(docs, row, dims, summary, es_up)
             THEN /\ Failures < MaxRetry
                  /\ wpc' = [wpc EXCEPT ![w] = "fail"]
                  /\ docs' = docs
                  /\ results' = results
             ELSE /\ wpc' = [wpc EXCEPT ![w] = "mark"]
                  /\ docs' = update_vectors(docs, row.entity_id,
                                            NestedChunks(JobChunks(row), dims), summary)
                  /\ \E bus_up \in BOOLEAN :
                        results' = emit_result(results, row.entity_id, summary, bus_up)
    /\ UNCHANGED <<searchVars, lockVars, limiterVars, jobVars, breakerVars, scoreVars, twinVars, routeVars, productVars>>
    /\ UNCHANGED <<topic, position, committed, cpc, done, oplog, batch, rowlock,
                   now, restarts>>

\* What is left of the batch once Head(batch) has been dealt with.
NextRow(w) ==
    /\ batch' = [batch EXCEPT ![w] = Tail(@)]
    /\ wpc' = [wpc EXCEPT ![w] = IF Len(batch[w]) > 1 THEN "run" ELSE "idle"]

\* UPDATE ai_oplog SET status = 'COMPLETED' WHERE id = $1
SetCompleted(rows, id) == [rows EXCEPT ![id].status = "COMPLETED"]

MarkCompleted(w) ==
    /\ wpc[w] = "mark"
    /\ oplog' = SetCompleted(oplog, Cur(w).id)
    /\ NextRow(w)
    /\ failed' = {}
    /\ UNCHANGED <<searchVars, lockVars, limiterVars, jobVars, breakerVars, scoreVars, twinVars, routeVars, productVars, results>>
    /\ UNCHANGED <<topic, position, committed, cpc, done, docs, rowlock, now,
                   restarts>>

\* The COMPLETED update raises: the except branch runs handle_failure.
MarkRaises(w) ==
    /\ wpc[w] = "mark"
    /\ Failures < MaxRetry
    /\ wpc' = [wpc EXCEPT ![w] = "fail"]
    /\ failed' = {}
    /\ UNCHANGED <<searchVars, lockVars, limiterVars, jobVars, breakerVars, scoreVars, twinVars, routeVars, productVars, results>>
    /\ UNCHANGED <<topic, position, committed, cpc, done, docs, oplog, batch,
                   rowlock, now, restarts>>

\* A backoff that grows by a fixed step.
Delay_Linear(retry_count) == retry_count * BACKOFF_BASE_SECONDS

\* delay = (2 ** retry_count) * 60
Delay(retry_count) == Pow2(retry_count) * BACKOFF_BASE_SECONDS

\* handle_failure: UPDATE ai_oplog SET status = 'RETRY', retry_count = $1, ...
FailureUpdate(rows, job) ==
    [rows EXCEPT ![job.id] =
        [@ EXCEPT !.status = "RETRY",
                  !.retry_count = job.retry_count + 1,
                  !.next_attempt_at = now + Delay(job.retry_count + 1),
                  !.error_message = "error"]]

handle_failure(w) ==
    /\ wpc[w] = "fail"
    /\ oplog' = FailureUpdate(oplog, Cur(w))
    /\ NextRow(w)
    /\ failed' = {}
    /\ UNCHANGED <<searchVars, lockVars, limiterVars, jobVars, breakerVars, scoreVars, twinVars, routeVars, productVars, results>>
    /\ UNCHANGED <<topic, position, committed, cpc, done, docs, rowlock, now,
                   restarts>>

\* The RETRY update itself raises: the exception leaves process_batch, the
\* loop of start() logs it and sleeps; the rest of the batch is dropped.
FailureRaises(w) ==
    /\ wpc[w] = "fail"
    /\ batch' = [batch EXCEPT ![w] = <<>>]
    /\ wpc' = [wpc EXCEPT ![w] = "idle"]
    /\ failed' = {}
    /\ UNCHANGED <<searchVars, lockVars, limiterVars, jobVars, breakerVars, scoreVars, twinVars, routeVars, productVars, results>>
    /\ UNCHANGED <<topic, position, committed, cpc, done, docs, oplog, rowlock,
                   now, restarts>>

\* A worker process dies and is restarted: its open statement is rolled back,
\* what it held in memory is gone.
WorkerCrash(w) ==
    /\ wpc[w] # "idle"
    /\ wpc' = [wpc EXCEPT ![w] = "idle"]
    /\ batch' = [batch EXCEPT ![w] = <<>>]
    /\ rowlock' = [rowlock EXCEPT ![w] = {}]
    /\ failed' = {}
    /\ UNCHANGED <<searchVars, lockVars, limiterVars, jobVars, breakerVars, scoreVars, twinVars, routeVars, productVars, results>>
    /\ UNCHANGED <<topic, position, committed, cpc, done, docs, oplog, now,
                   restarts>>

\* Time passes, up to the next instant at which a row becomes due.
Future == {oplog[r].next_attempt_at : r \in {x \in RowIds : oplog[x].status = "RETRY"
                                                    /\ oplog[x].next_attempt_at > now}}

Tick ==
    /\ Future # {}
    /\ now' = CHOOSE t \in Future : \A u \in Future : t <= u
    /\ UNCHANGED <<searchVars, lockVars, limiterVars, jobVars, breakerVars, scoreVars, twinVars, routeVars, productVars, results, failed>>
    /\ UNCHANGED <<topic, position, committed, cpc, done, docs, oplog, wpc,
                   batch, rowlock, restarts>>

IngestInit ==
    /\ topic = <<>>
    /\ position = 0
    /\ committed = 0
    /\ cpc = "idle"
    /\ done = {}
    /\ docs = [e \in Entities |-> AbsentDoc]
    /\ oplog = <<>>
    /\ wpc = [w \in Workers |-> "idle"]
    /\ batch = [w \in Workers |-> <<>>]
    /\ rowlock = [w \in Workers |-> {}]
    /\ now = 0
    /\ restarts = 0
    /\ results = <<>>
    /\ failed = {}

(***************************************************************************)
(* Part IV.  POST /search: search_content and ElasticManager.search.       *)
(* The store's scoring is environment: for a query it gives the documents  *)
(* that match the should-clauses with a score of at least min_score, in    *)
(* the order sort_by asks for (smatch); the filter clauses are the code's. *)
(***************************************************************************)
\* Documents indexed and enriched before the run.
OtherDocs == {"d1", "d2", "d3", "d4", "d5"}

ReadyDoc ==
    [status |-> "ready", content |-> 1, chunks |-> <<EMBEDDING_DIMS>>,
     summary |-> "none"]

StoredDoc(id) == IF id \in Entities THEN docs[id] ELSE ReadyDoc

\* A search without its base filter: any stored document may be a hit.
FilterMatches_NoStatus(doc) == doc.status # "absent"

\* filter_clauses = [{"term": {"status": "ready"}}]
FilterMatches(doc) == doc.status = "ready"

Top(s, n) == SubSeq(s, 1, Min(n, Len(s)))

Range(s) == {s[i] : i \in 1..Len(s)}

\* The sequences on the elements of s, each once: what a reranker may return.
Reorderings(s) ==
    {p \in [1..Len(s) -> Range(s)] : \A i, j \in 1..Len(s) : i # j => p[i] # p[j]}

\* A retrieval that never widens.
retrieval_limit_Same(limit, enable_reranking) == limit

\* retrieval_limit = max(limit * 3, 20) if enable_reranking else limit
retrieval_limit(limit, enable_reranking) ==
    IF enable_reranking THEN Max(limit * RETRIEVAL_FACTOR, RETRIEVAL_MIN) ELSE limit

\* ElasticManager.search: bool query with the filter, "size": limit.
Filtered(match) == SelectSeq(match, LAMBDA id : FilterMatches(StoredDoc(id)))

elastic_search(match, size) == Top(Filtered(match), size)

\* A SearchRequest: what the handler itself reads.  sort_by, min_score and
\* the query go to the store, whose answer to them is smatch.
Requests == [limit : 1..MaxLimit, enable_reranking : BOOLEAN]

NoRequest == [limit |-> 0, enable_reranking |-> FALSE]

NoResponse == [status |-> 0, results |-> <<>>]

\* The rankings the store may give in a run without ingestion.
RankMatches == {<<>>, <<"d1">>, <<"d1", "d2">>, <<"d1", "d2", "d3">>,
                <<"d1", "d2", "d3", "d4">>, <<"d1", "d2", "d3", "d4", "d5">>}

\* The rankings of the documents the pipeline writes.
DocMatches == {<<>>} \cup {<<e>> : e \in Entities}
                    \cup {<<e, f>> : <<e, f>> \in {x \in Entities \X Entities : x[1] # x[2]}}

\* The request arrives; the handler awaits analyze_query / embed_documents.
search_content(req) ==
    /\ spc = "idle"
    /\ spc' = "query"
    /\ sreq' = req
    /\ smatch' = <<>>
    /\ sretrieved' = <<>>
    /\ sresp' = NoResponse
    /\ UNCHANGED <<ingestVars, lockVars, limiterVars, jobVars, breakerVars, scoreVars, twinVars, routeVars, productVars>>

\* except Exception: HTTP 500 (the embedding call or the store raised).
SearchFails ==
    /\ spc \in {"query"}
    /\ spc' = "idle"
    /\ sresp' = [status |-> 500, results |-> <<>>]
    /\ UNCHANGED <<sreq, smatch, sretrieved>>
    /\ UNCHANGED <<ingestVars, lockVars, limiterVars, jobVars, breakerVars, scoreVars, twinVars, routeVars, productVars>>

\* hits = await elastic.search(..., limit=retrieval_limit, ...); without
\* reranking (or without hits) the handler formats them and returns.
search(match) ==
    /\ spc = "query"
    /\ \A i \in 1..Len(match) : StoredDoc(match[i]).status # "absent"
    /\ smatch' = match
    /\ LET hits == elastic_search(match,
                       retrieval_limit(sreq.limit, sreq.enable_reranking)) IN
        /\ sretrieved' = hits
        /\ IF sreq.enable_reranking /\ hits # <<>>
              THEN spc' = "rerank" /\ sresp' = sresp
              ELSE spc' = "idle" /\ sresp' = [status |-> 200, results |-> hits]
    /\ UNCHANGED sreq
    /\ UNCHANGED <<ingestVars, lockVars, limiterVars, jobVars, breakerVars, scoreVars, twinVars, routeVars, productVars>>

\* reranked = await intelligence.rerank(...); on an error rerank returns the
\* documents as they were sent; new_hits = reranked['results'][:limit].
rerank ==
    /\ spc = "rerank"
    /\ \E reranked \in Reorderings(sretrieved) :
          sresp' = [status |-> 200, results |-> Top(reranked, sreq.limit)]
    /\ spc' = "idle"
    /\ UNCHANGED <<sreq, smatch, sretrieved>>
    /\ UNCHANGED <<ingestVars, lockVars, limiterVars, jobVars, breakerVars, scoreVars, twinVars, routeVars, productVars>>

SearchInit ==
    /\ spc = "idle"
    /\ sreq = NoRequest
    /\ smatch = <<>>
    /\ sretrieved = <<>>
    /\ sresp = NoResponse

(***************************************************************************)
(* Part II.  The highlight consumer and its per-video lock.                *)
(* hpc: "idle" (waiting for a request), "received" (a request was read),   *)
(* "locked" (acquire returned True), "running" (inside                     *)
(* wait_for(run_highlight_job)), "emit" (the outcome event is being        *)
(* produced), "release" (the finally block).                               *)
(* hlog has one record per request read: what became of it.                *)
(***************************************************************************)
HWorkers == {"h1", "h2"}

Videos == {"v1", "v2"}

\* by: the worker whose SET made the key (history; Redis stores "locked").
NoLock == [held |-> FALSE, expires_at |-> 0, by |-> "none"]

\* SET without NX never finds the key.
KeyExists_Never(v) == FALSE

\* A key whose TTL has run out is gone.
KeyExists(v) == lock[v].held /\ hnow < lock[v].expires_at

\* A release that leaves the key.
delete_Nothing(lk, v) == lk

\* self._redis.delete(key)
delete(lk, v) == [lk EXCEPT ![v] = NoLock]

\* What run_highlight_job gives: a result with clips, with or without
\* warnings, a result with clipCount 0, or an exception.
JobReturns == {"complete", "degraded", "empty", "raised"}

\* A consumer without the two exception handlers.
TopicOf_NoHandlers(outcome) == IF outcome = "degraded" THEN "degraded" ELSE "complete"

\* topic = TOPIC_DEGRADED if result.get("warnings") else TOPIC_COMPLETE;
\* TOPIC_FAILED in the handlers of TimeoutError and Exception.
TopicOf(outcome) ==
    CASE outcome \in {"complete", "empty"} -> "complete"
      [] outcome = "degraded" -> "degraded"
      [] OTHER -> "failed"

\* The events that reach the bus: a send that raises inside the try is
\* caught by "except Exception", which sends the failed event; a send that
\* raises inside a handler leaves the loop.
OutcomeEvents(outcome, bus1, bus2) ==
    IF TopicOf(outcome) # "failed"
    THEN IF bus1 THEN <<TopicOf(outcome)>>
         ELSE IF bus2 THEN <<"failed">> ELSE <<>>
    ELSE IF bus1 THEN <<"failed">> ELSE <<>>

NewRequest(w, v, raced) ==
    [video |-> v, raced |-> raced, acquired |-> FALSE, ran |-> FALSE,
     outcome |-> "none", events |-> <<>>, sent |-> TRUE, committed |-> FALSE,
     crashed |-> FALSE, deliveries |-> 1]

\* The request another worker has read for the same video and not yet
\* tried to lock, 0 if there is none.
RacingWith(w, v) ==
    IF \E w2 \in HWorkers \ {w} : hpc[w2] = "received" /\ hvideo[w2] = v
    THEN hmid[CHOOSE w2 \in HWorkers \ {w} : hpc[w2] = "received" /\ hvideo[w2] = v]
    ELSE 0

\* async for msg in consumer: video_id = payload.get("videoId")
Receive(w, v) ==
    /\ hpc[w] = "idle"
    /\ Len(hlog) < MaxRequests
    /\ hpc' = [hpc EXCEPT ![w] = "received"]
    /\ hvideo' = [hvideo EXCEPT ![w] = v]
    /\ hmid' = [hmid EXCEPT ![w] = Len(hlog) + 1]
    /\ LET other == RacingWith(w, v) IN
       hlog' = Append(IF other = 0 THEN hlog
                      ELSE [hlog EXCEPT ![other].raced = Len(hlog) + 1],
                      NewRequest(w, v, other))
    /\ UNCHANGED <<lock, hdeadline, hnow>>
    /\ UNCHANGED <<ingestVars, searchVars, limiterVars, jobVars, breakerVars, scoreVars, twinVars, routeVars, productVars>>

\* DistributedLock.acquire: SET key "locked" EX ttl NX.
acquire(w) ==
    /\ hpc[w] = "received"
    /\ LET v == hvideo[w] IN
       IF KeyExists(v)
          THEN \* lock already held: skip the request, commit, next message
               /\ hpc' = [hpc EXCEPT ![w] = "idle"]
               /\ hlog' = [hlog EXCEPT ![hmid[w]].committed = TRUE]
               /\ lock' = lock
          ELSE /\ lock' = [lock EXCEPT ![v] =
                              [held |-> TRUE, expires_at |-> hnow + LOCK_TTL, by |-> w]]
               /\ hpc' = [hpc EXCEPT ![w] = "locked"]
               /\ hlog' = [hlog EXCEPT ![hmid[w]].acquired = TRUE]
    /\ UNCHANGED <<hvideo, hmid, hdeadline, hnow>>
    /\ UNCHANGED <<ingestVars, searchVars, limiterVars, jobVars, breakerVars, scoreVars, twinVars, routeVars, productVars>>

\* asyncio.wait_for(run_highlight_job(payload), timeout=JOB_TIMEOUT_SECONDS)
StartJob(w) ==
    /\ hpc[w] = "locked"
    /\ hpc' = [hpc EXCEPT ![w] = "running"]
    /\ hdeadline' = [hdeadline EXCEPT ![w] = hnow + JOB_TIMEOUT_SECONDS]
    /\ hlog' = [hlog EXCEPT ![hmid[w]].ran = TRUE]
    /\ UNCHANGED <<lock, hvideo, hmid, hnow>>
    /\ UNCHANGED <<ingestVars, searchVars, limiterVars, jobVars, breakerVars, scoreVars, twinVars, routeVars, productVars>>

\* The job returns or raises before the timeout.
JobEnds(w) ==
    /\ hpc[w] = "running"
    /\ hnow <= hdeadline[w]
    /\ hpc' = [hpc EXCEPT ![w] = "emit"]
    /\ \E outcome \in JobReturns :
          hlog' = [hlog EXCEPT ![hmid[w]].outcome = outcome]
    /\ hdeadline' = [hdeadline EXCEPT ![w] = 0]
    /\ UNCHANGED <<lock, hvideo, hmid, hnow>>
    /\ UNCHANGED <<ingestVars, searchVars, limiterVars, jobVars, breakerVars, scoreVars, twinVars, routeVars, productVars>>

\* asyncio.TimeoutError: the job is cancelled at its deadline.
JobTimeout(w) ==
    /\ hpc[w] = "running"
    /\ hnow >= hdeadline[w]
    /\ hpc' = [hpc EXCEPT ![w] = "emit"]
    /\ hlog' = [hlog EXCEPT ![hmid[w]].outcome = "timeout"]
    /\ hdeadline' = [hdeadline EXCEPT ![w] = 0]
    /\ UNCHANGED <<lock, hvideo, hmid, hnow>>
    /\ UNCHANGED <<ingestVars, searchVars, limiterVars, jobVars, breakerVars, scoreVars, twinVars, routeVars, productVars>>

\* SIGTERM or SIGINT: _shutdown cancels every task and stops the loop.
\* CancelledError passes both handlers, so no event is sent; the finally
\* block starts, but the stopped loop runs nothing further, so the DEL may
\* or may not have reached Redis and the commit is never made.  The process
\* ends and is started again.
Cancel(w) ==
    /\ hpc[w] = "running"
    /\ hpc' = [hpc EXCEPT ![w] = "idle"]
    /\ hlog' = [hlog EXCEPT ![hmid[w]].outcome = "cancelled",
                            ![hmid[w]].crashed = TRUE]
    /\ hdeadline' = [hdeadline EXCEPT ![w] = 0]
    /\ \E deleted \in BOOLEAN :
          lock' = IF deleted THEN delete(lock, hvideo[w]) ELSE lock
    /\ UNCHANGED <<hvideo, hmid, hnow>>
    /\ UNCHANGED <<ingestVars, searchVars, limiterVars, jobVars, breakerVars, scoreVars, twinVars, routeVars, productVars>>

\* producer.send_and_wait of the outcome event, in the try or in a handler.
Emit(w) ==
    /\ hpc[w] = "emit"
    /\ hpc' = [hpc EXCEPT ![w] = "release"]
    /\ \E bus1, bus2 \in BOOLEAN :
          LET sent == OutcomeEvents(hlog[hmid[w]].outcome, bus1, bus2) IN
          hlog' = [hlog EXCEPT ![hmid[w]].events = sent,
                               ![hmid[w]].sent = (sent # <<>>)]
    /\ UNCHANGED <<lock, hvideo, hmid, hdeadline, hnow>>
    /\ UNCHANGED <<ingestVars, searchVars, limiterVars, jobVars, breakerVars, scoreVars, twinVars, routeVars, productVars>>

\* finally: DistributedLock.release, which deletes the key whoever set it,
\* then consumer.commit().
release(w) ==
    /\ hpc[w] = "release"
    /\ lock' = delete(lock, hvideo[w])
    /\ hpc' = [hpc EXCEPT ![w] = "idle"]
    /\ hlog' = [hlog EXCEPT ![hmid[w]].committed = TRUE]
    /\ UNCHANGED <<hvideo, hmid, hdeadline, hnow>>
    /\ UNCHANGED <<ingestVars, searchVars, limiterVars, jobVars, breakerVars, scoreVars, twinVars, routeVars, productVars>>

\* The worker process dies and is restarted; nothing releases its lock.
HCrash(w) ==
    /\ hpc[w] # "idle"
    /\ hpc' = [hpc EXCEPT ![w] = "idle"]
    /\ hlog' = [hlog EXCEPT ![hmid[w]].crashed = TRUE]
    /\ hdeadline' = [hdeadline EXCEPT ![w] = 0]
    /\ UNCHANGED <<lock, hvideo, hmid, hnow>>
    /\ UNCHANGED <<ingestVars, searchVars, limiterVars, jobVars, breakerVars, scoreVars, twinVars, routeVars, productVars>>

\* A worker dies while it handles a request, at most MaxCrashes times for
\* the same request.
HCrashHandling(w) ==
    /\ hpc[w] # "idle"
    /\ hlog[hmid[w]].deliveries <= MaxCrashes
    /\ HCrash(w)

\* The offset of a request whose worker died was never committed: the group
\* hands the request to a worker again.
Redeliver(w, i) ==
    /\ hpc[w] = "idle"
    /\ hlog[i].crashed
    /\ ~hlog[i].committed
    /\ hlog[i].outcome # "cancelled"
    /\ hpc' = [hpc EXCEPT ![w] = "received"]
    /\ hvideo' = [hvideo EXCEPT ![w] = hlog[i].video]
    /\ hmid' = [hmid EXCEPT ![w] = i]
    /\ hlog' = [hlog EXCEPT ![i] = [NewRequest(w, hlog[i].video, hlog[i].raced) EXCEPT
                                       !.deliveries = hlog[i].deliveries + 1]]
    /\ UNCHANGED <<lock, hdeadline, hnow>>
    /\ UNCHANGED <<ingestVars, searchVars, limiterVars, jobVars, breakerVars, scoreVars, twinVars, routeVars, productVars>>

\* The bus takes the outcome event.
EmitOk(w) ==
    /\ Emit(w)
    /\ hlog'[hmid[w]].sent

TickSeconds == LOCK_TTL \div 2

\* Time passes; a running job is cancelled at its deadline, not later.
HTick ==
    /\ hnow < MaxTicks * TickSeconds
    /\ \A w \in HWorkers : hpc[w] = "running" => hnow + TickSeconds <= hdeadline[w]
    /\ hnow' = hnow + TickSeconds
    /\ UNCHANGED <<lock, hpc, hvideo, hmid, hlog, hdeadline>>
    /\ UNCHANGED <<ingestVars, searchVars, limiterVars, jobVars, breakerVars, scoreVars, twinVars, routeVars, productVars>>

LockInit ==
    /\ lock = [v \in Videos |-> NoLock]
    /\ hpc = [w \in HWorkers |-> "idle"]
    /\ hvideo = [w \in HWorkers |-> "v1"]
    /\ hmid = [w \in HWorkers |-> 0]
    /\ hlog = <<>>
    /\ hdeadline = [w \in HWorkers |-> 0]
    /\ hnow = 0

LockNext ==
    \/ \E w \in HWorkers, v \in Videos : Receive(w, v)
    \/ \E w \in HWorkers : acquire(w)
    \/ \E w \in HWorkers : StartJob(w)
    \/ \E w \in HWorkers : JobEnds(w)
    \/ \E w \in HWorkers : JobTimeout(w)
    \/ \E w \in HWorkers : Cancel(w)
    \/ \E w \in HWorkers : Emit(w)
    \/ \E w \in HWorkers : release(w)
    \/ \E w \in HWorkers : HCrash(w)
    \/ HTick

(***************************************************************************)
(* Part V.  run_highlight_job from scoring on: consolidate_clips, the      *)
(* extraction and upload of the clips, the result, and the topic consume   *)
(* sends it on.  A map of qualified seconds is a function from a set of    *)
(* seconds to scores; scores are whole numbers.                            *)
(***************************************************************************)
Seconds == 0..MaxSecond

Scores == {1, 2}

QualifiedMaps == UNION {[S -> Scores] : S \in SUBSET Seconds}

\* scoring_cfg: the parameters consolidate_clips is called with.
Configs ==
    {c \in [min_duration : 1..3, max_duration : 1..3, context_buffer : 0..1,
            min_gap : 0..1, max_clips : 1..2] : c.min_duration <= c.max_duration}

\* Step 2: seconds no more than min_gap apart share a cluster.
RECURSIVE Clusters(_, _, _, _, _)
Clusters(seconds, min_gap, i, clusters, current_cluster) ==
    IF i > Len(seconds) THEN Append(clusters, current_cluster)
    ELSE IF seconds[i] - seconds[i - 1] <= min_gap
         THEN Clusters(seconds, min_gap, i + 1, clusters,
                       Append(current_cluster, seconds[i]))
         ELSE Clusters(seconds, min_gap, i + 1, Append(clusters, current_cluster),
                       <<seconds[i]>>)

\* Step 3: the window of a cluster, widened by the context buffer.
RawClip(qualified, cluster, context_buffer) ==
    LET peak_score == CHOOSE x \in {qualified[cluster[k]] : k \in 1..Len(cluster)} :
                         \A k \in 1..Len(cluster) : qualified[cluster[k]] <= x
        first_peak == CHOOSE k \in 1..Len(cluster) :
                         /\ qualified[cluster[k]] = peak_score
                         /\ \A j \in 1..(k - 1) : qualified[cluster[j]] # peak_score
    IN [start |-> Max(0, cluster[1] - context_buffer),
        end |-> cluster[Len(cluster)] + context_buffer,
        score |-> peak_score,
        peak_second |-> cluster[first_peak]]

\* Step 4: a clip that starts within min_gap of the previous end is merged
\* into the previous clip.
RECURSIVE MergeClips(_, _, _, _)
MergeClips(raw_clips, min_gap, i, merged) ==
    IF i > Len(raw_clips) THEN merged
    ELSE LET clip == raw_clips[i]
             n == Len(merged)
         IN IF n > 0 /\ clip.start <= merged[n].end + min_gap
            THEN MergeClips(raw_clips, min_gap, i + 1,
                            [merged EXCEPT ![n].end = Max(merged[n].end, clip.end),
                                           ![n].score = Max(merged[n].score, clip.score)])
            ELSE MergeClips(raw_clips, min_gap, i + 1, Append(merged, clip))

\* A step 5 that leaves every clip as merged.
Constrain_Keep(clip, min_duration, max_duration) == clip

\* Step 5: a short clip is widened to min_duration, a long one is cut.
Constrain(clip, min_duration, max_duration) ==
    LET duration == clip.end - clip.start IN
    IF duration < min_duration
    THEN LET start == Max(0, clip.start - ((min_duration - duration) \div 2))
         IN [clip EXCEPT !.start = start, !.end = start + min_duration]
    ELSE IF duration > max_duration
         THEN [clip EXCEPT !.end = clip.start + max_duration]
         ELSE clip

\* The sort keys: c["start"], and c["score"] with reverse=True.
SortKey(clip, by) == IF by = "start" THEN clip.start ELSE 0 - clip.score

\* sorted(..., key=...): Python's sort is stable, with reverse=True too.
RECURSIVE StableSort(_, _)
StableSort(s, by) ==
    IF s = <<>> THEN <<>>
    ELSE LET rest == StableSort(Tail(s), by)
             k == Cardinality({j \in 1..Len(rest) :
                                  SortKey(rest[j], by) < SortKey(Head(s), by)})
         IN SubSeq(rest, 1, k) \o <<Head(s)>> \o SubSeq(rest, k + 1, Len(rest))

consolidate_clips(qualified, min_duration, max_duration, context_buffer, min_gap, max_clips) ==
    IF DOMAIN qualified = {} THEN <<>>
    ELSE LET seconds == SetToSeq(DOMAIN qualified)
             clusters == Clusters(seconds, min_gap, 2, <<>>, <<seconds[1]>>)
             raw_clips == [k \in 1..Len(clusters) |->
                              RawClip(qualified, clusters[k], context_buffer)]
             merged == MergeClips(StableSort(raw_clips, "start"), min_gap, 1, <<>>)
             constrained == [k \in 1..Len(merged) |->
                                Constrain(merged[k], min_duration, max_duration)]
             ranked == StableSort(constrained, "score")
         IN StableSort(Top(ranked, max_clips), "start")

NoInput == [qualified |-> <<>>, cfg |-> [min_duration |-> 1, max_duration |-> 1,
                                         context_buffer |-> 0, min_gap |-> 0,
                                         max_clips |-> 1]]

NoResult == [raised |-> FALSE, clipCount |-> 0, warnings |-> <<>>, extracted |-> {},
             uploaded |-> {}, topic |-> "none", written |-> <<>>, manifest |-> <<>>]

\* Steps 8 to 11 run even when no clip was consolidated.
ZeroClips_Extract(clips) == [NoResult EXCEPT !.raised = TRUE]

\* The early returns of steps 6 and 7: clipCount 0 and the warnings so far,
\* of which there are none.
ZeroClips(clips) == NoResult

\* Steps 8 to 11.  ok: the clips extract_clip succeeded on.
Extracted(clips, ok, enrich_ok, upload_ok) ==
    IF ok = {} \/ ~upload_ok
    THEN [NoResult EXCEPT !.raised = TRUE, !.extracted = ok]
    ELSE [NoResult EXCEPT !.clipCount = Cardinality(ok),
                          !.warnings = IF enrich_ok THEN <<>>
                                       ELSE <<"Enrichment partial failure">>,
                          !.extracted = ok,
                          !.uploaded = ok]

\* upload_all_clips: the objects put for the extracted clips, in order: each
\* clip's file and, where extract_thumbnail left one, its thumbnail.
RECURSIVE Uploads(_, _)
Uploads(order, thumbs) ==
    IF order = <<>> THEN <<>>
    ELSE <<[kind |-> "clip", index |-> Head(order) - 1]>>
         \o (IF Head(order) \in thumbs
             THEN <<[kind |-> "thumb", index |-> Head(order) - 1]>>
             ELSE <<>>)
         \o Uploads(Tail(order), thumbs)

\* A manifest with an entry for every consolidated clip.
highlights_data_AllClips(clips, ok) ==
    [k \in 1..Len(clips) |->
        [index |-> k - 1, start |-> clips[k].start, end |-> clips[k].end]]

\* highlights_data: one entry per clip extract_all_clips returned.
highlights_data(clips, ok) ==
    LET order == SetToSeq(ok)
    IN  [k \in 1..Len(order) |->
            [index |-> order[k] - 1, start |-> clips[order[k]].start,
             end |-> clips[order[k]].end]]

\* What consume sees of a result.
Kind(res) ==
    IF res.raised THEN "raised"
    ELSE IF res.warnings # <<>> THEN "degraded"
    ELSE IF res.clipCount = 0 THEN "empty"
    ELSE "complete"

\* compute_scores and qualify_seconds have run.
qualify_seconds ==
    /\ jpc = "start"
    /\ jpc' = "scored"
    /\ \E qualified \in QualifiedMaps, cfg \in Configs :
          jin' = [qualified |-> qualified, cfg |-> cfg]
    /\ UNCHANGED <<jclips, jres>>
    /\ UNCHANGED <<ingestVars, searchVars, lockVars, limiterVars, breakerVars, scoreVars, twinVars, routeVars, productVars>>

\* Steps 6 and 7 of run_highlight_job.
Consolidate ==
    /\ jpc = "scored"
    /\ LET c == jin.cfg
           clips == consolidate_clips(jin.qualified, c.min_duration, c.max_duration,
                                      c.context_buffer, c.min_gap, c.max_clips)
       IN /\ jclips' = clips
          /\ IF clips = <<>>
             THEN jpc' = "returned" /\ jres' = ZeroClips(clips)
             ELSE jpc' = "clips" /\ jres' = jres
    /\ jin' = jin
    /\ UNCHANGED <<ingestVars, searchVars, lockVars, limiterVars, breakerVars, scoreVars, twinVars, routeVars, productVars>>

\* Steps 8 to 11 of run_highlight_job.
ExtractAndUpload ==
    /\ jpc = "clips"
    /\ jpc' = "returned"
    /\ \E ok \in SUBSET (1..Len(jclips)), enrich_ok \in BOOLEAN :
       \E thumbs \in SUBSET ok :
          LET uploads == Uploads(SetToSeq(ok), thumbs)
          IN  \E put \in 0..Len(uploads) :
                 LET upload_ok == put = Len(uploads)
                 IN  jres' = [Extracted(jclips, ok, enrich_ok, upload_ok) EXCEPT
                                 !.written = IF ok = {} THEN <<>>
                                             ELSE IF upload_ok
                                             THEN Append(uploads, [kind |-> "json", index |-> 0])
                                             ELSE SubSeq(uploads, 1, put),
                                 !.manifest = IF ok = {} \/ ~upload_ok THEN <<>>
                                              ELSE highlights_data(jclips, ok)]
    /\ UNCHANGED <<jin, jclips>>
    /\ UNCHANGED <<ingestVars, searchVars, lockVars, limiterVars, breakerVars, scoreVars, twinVars, routeVars, productVars>>

\* consume: the topic of the result, or of the exception.
ChooseTopic ==
    /\ jpc = "returned"
    /\ jpc' = "emitted"
    /\ jres' = [jres EXCEPT !.topic = TopicOf(Kind(jres))]
    /\ UNCHANGED <<jin, jclips>>
    /\ UNCHANGED <<ingestVars, searchVars, lockVars, limiterVars, breakerVars, scoreVars, twinVars, routeVars, productVars>>

JobInit ==
    /\ jpc = "start"
    /\ jin = NoInput
    /\ jclips = <<>>
    /\ jres = NoResult

JobNext ==
    \/ qualify_seconds
    \/ Consolidate
    \/ ExtractAndUpload
    \/ ChooseTopic

(***************************************************************************)
(* Part VI.  catalyst services/search.py: _rerank and its process-local    *)
(* circuit breaker.  Searches of one process interleave at the await of    *)
(* the reranker call.                                                      *)
(***************************************************************************)
Searches == {"q1", "q2"}

\* What _es_query handed to _rerank, best first.
EsHits == {<<>>, <<"d1">>, <<"d1", "d2">>, <<"d1", "d2", "d3">>}

NoSearch == [pc |-> "idle", hits |-> <<>>, top_n |-> 1, called |-> FALSE,
             results |-> <<>>]

\* A breaker that never opens.
Opens_Never(failures) == FALSE

\* if _rerank_failures >= _CIRCUIT_OPEN_THRESHOLD
Opens(failures) == failures >= CIRCUIT_OPEN_THRESHOLD

\* _rerank up to the await: no hits, breaker open, or the call is made.
RerankStart(q, hits, top_n) ==
    /\ rq[q].pc = "idle"
    /\ rq' = [rq EXCEPT ![q] =
                 IF hits = <<>>
                 THEN [NoSearch EXCEPT !.top_n = top_n]
                 ELSE IF ropen
                      THEN [NoSearch EXCEPT !.hits = hits, !.top_n = top_n,
                                            !.results = Top(hits, top_n)]
                      ELSE [NoSearch EXCEPT !.pc = "calling", !.hits = hits,
                                            !.top_n = top_n, !.called = TRUE]]
    /\ UNCHANGED <<rup, routages, rfail, ropen, rstreak>>
    /\ UNCHANGED <<ingestVars, searchVars, lockVars, limiterVars, jobVars, scoreVars, twinVars, routeVars, productVars>>

\* The call returned a ranking: counter and breaker are reset.
RerankOk(q) ==
    /\ rq[q].pc = "calling"
    /\ rup
    /\ rfail' = 0
    /\ ropen' = FALSE
    /\ rstreak' = 0
    /\ \E ranked \in Reorderings(rq[q].hits) :
          rq' = [rq EXCEPT ![q].pc = "idle",
                           ![q].results = Top(ranked, rq[q].top_n)]
    /\ UNCHANGED <<rup, routages>>
    /\ UNCHANGED <<ingestVars, searchVars, lockVars, limiterVars, jobVars, scoreVars, twinVars, routeVars, productVars>>

\* The call raised: one more failure, and the breaker opens at the threshold.
RerankFails(q) ==
    /\ rq[q].pc = "calling"
    /\ ~rup
    /\ rfail' = rfail + 1
    /\ ropen' = (ropen \/ Opens(rfail + 1))
    /\ rstreak' = rstreak + 1
    /\ rq' = [rq EXCEPT ![q].pc = "idle",
                        ![q].results = Top(rq[q].hits, rq[q].top_n)]
    /\ UNCHANGED <<rup, routages>>
    /\ UNCHANGED <<ingestVars, searchVars, lockVars, limiterVars, jobVars, scoreVars, twinVars, routeVars, productVars>>

\* The reranker stops answering.
Outage ==
    /\ rup
    /\ routages < MaxOutages
    /\ rup' = FALSE
    /\ routages' = routages + 1
    /\ UNCHANGED <<rfail, ropen, rstreak, rq>>
    /\ UNCHANGED <<ingestVars, searchVars, lockVars, limiterVars, jobVars, scoreVars, twinVars, routeVars, productVars>>

\* The reranker answers again.
Recover ==
    /\ ~rup
    /\ rup' = TRUE
    /\ UNCHANGED <<routages, rfail, ropen, rstreak, rq>>
    /\ UNCHANGED <<ingestVars, searchVars, lockVars, limiterVars, jobVars, scoreVars, twinVars, routeVars, productVars>>

BreakerInit ==
    /\ rup = TRUE
    /\ routages = 0
    /\ rfail = 0
    /\ ropen = FALSE
    /\ rstreak = 0
    /\ rq = [q \in Searches |-> NoSearch]

BreakerNext ==
    \/ \E q \in Searches, hits \in EsHits, top_n \in 1..MaxLimit : RerankStart(q, hits, top_n)
    \/ \E q \in Searches : RerankOk(q)
    \/ \E q \in Searches : RerankFails(q)
    \/ Outage
    \/ Recover

(***************************************************************************)
(* Part VII.  scoring.py: compute_scores and qualify_seconds.              *)
(***************************************************************************)
ScoreSeconds == 0..2

\* dict[int, float] of one signal: the seconds it scored.
AudioMaps == UNION {[S -> {150, 900}] : S \in SUBSET ScoreSeconds}
ChatMaps == UNION {[S -> {100, 400}] : S \in SUBSET ScoreSeconds}

\* signal_weights; the chat signal may have no weight configured.
WeightMaps ==
    [{"audio"} -> {333, 500}] \cup [{"audio", "chat"} -> {333, 500}]

\* dict.get(key, 0.0)
Get(m, k) == IF k \in DOMAIN m THEN m[k] ELSE 0

\* max(window) of one signal at sec
WindowMax(scores, sec) ==
    Max(Get(scores, sec - 1), Max(Get(scores, sec), Get(scores, sec + 1)))

\* total after the loop over the signals, in millionths
RECURSIVE WeightedSum(_, _, _, _)
WeightedSum(sigs, signal_outputs, signal_weights, sec) ==
    IF sigs = {} THEN 0
    ELSE LET sig == CHOOSE x \in sigs : TRUE
         IN  WindowMax(signal_outputs[sig], sec) * Get(signal_weights, sig)
             + WeightedSum(sigs \ {sig}, signal_outputs, signal_weights, sec)

\* A signal counts from 0.1 on.
Present_Inclusive(signal_score) == signal_score >= SIGNAL_PRESENT

\* if signal_score > 0.1
Present(signal_score) == signal_score > SIGNAL_PRESENT

SigCount(signal_outputs, sec) ==
    Cardinality({sig \in DOMAIN signal_outputs :
                    Present(WindowMax(signal_outputs[sig], sec))})

\* round(total, 4): millionths to ten-thousandths.  A total half way
\* between two results goes where its binary float lies, up or down.
Round4(total, up) ==
    LET q == total \div 100
        r == total % 100
    IN  IF r > 50 \/ (r = 50 /\ up) THEN q + 1 ELSE q

compute_scores(signal_outputs, signal_weights, duration_seconds, ties) ==
    LET Total(sec) ==
            WeightedSum(DOMAIN signal_outputs, signal_outputs, signal_weights, sec)
        kept == {sec \in 0..(duration_seconds - 1) : Total(sec) > REPORTED_TOTAL}
    IN  [sec \in kept |->
            [total |-> Round4(Total(sec), ties[sec]),
             sig_count |-> SigCount(signal_outputs, sec)]]

\* A second qualifies on its total alone.
Qualifies_TotalOnly(data, threshold) == data.total >= threshold

\* if score >= threshold: if count >= 2 or score >= 0.3
Qualifies(data, threshold) ==
    /\ data.total >= threshold
    /\ (data.sig_count >= 2 \/ data.total >= SINGLE_SIGNAL_TOTAL)

QualifiedOf(aggregate_scores, threshold) ==
    LET kept == {sec \in DOMAIN aggregate_scores :
                    Qualifies(aggregate_scores[sec], threshold)}
    IN  [sec \in kept |-> aggregate_scores[sec].total]

Thresholds == {2000, 3500}

NoScoreInput == [signal_outputs |-> <<>>, signal_weights |-> <<>>, duration_seconds |-> 0]

Score ==
    /\ scpc = "start"
    /\ \E audio \in AudioMaps, chat \in ChatMaps, signal_weights \in WeightMaps,
          duration_seconds \in 1..MaxDuration :
          LET signal_outputs == [sig \in {"audio", "chat"} |->
                                    IF sig = "audio" THEN audio ELSE chat]
          IN  /\ scin' = [signal_outputs |-> signal_outputs,
                          signal_weights |-> signal_weights,
                          duration_seconds |-> duration_seconds]
              /\ \E ties \in [0..(duration_seconds - 1) -> BOOLEAN] :
                    sagg' = compute_scores(signal_outputs, signal_weights,
                                           duration_seconds, ties)
    /\ scpc' = "scored"
    /\ UNCHANGED squal
    /\ UNCHANGED <<ingestVars, searchVars, lockVars, limiterVars, jobVars, breakerVars, twinVars, routeVars, productVars>>

Qualify ==
    /\ scpc = "scored"
    /\ \E threshold \in Thresholds :
          squal' = [threshold |-> threshold,
                    qualified |-> QualifiedOf(sagg, threshold)]
    /\ scpc' = "qualified"
    /\ UNCHANGED <<scin, sagg>>
    /\ UNCHANGED <<ingestVars, searchVars, lockVars, limiterVars, jobVars, breakerVars, twinVars, routeVars, productVars>>

ScoreInit ==
    /\ scpc = "start"
    /\ scin = NoScoreInput
    /\ sagg = <<>>
    /\ squal = [threshold |-> 0, qualified |-> <<>>]

ScoreNext ==
    \/ Score
    \/ Qualify

(***************************************************************************)
(* Part III.  The token bucket of core/limiter.py (ingestion).             *)
(***************************************************************************)
Procs == {"p1", "p2"}

\* time.time() of the calling process.
WallClock(p) == IF p = "p1" THEN rt ELSE rt + ClockSkew

NoBucket == [exists |-> FALSE, tokens |-> 0, last_refill |-> 0, expire_at |-> 0]

\* HMGET of a key that is missing or whose TTL has run out gives nil.
Stored(b) == b.exists /\ (b.expire_at = 0 \/ rt < b.expire_at)

\* Lines 18-25 of the script: the tokens and last_refill after the refill.
Refilled(b, capacity, refill_rate, t) ==
    IF ~Stored(b)
    THEN [tokens |-> capacity, last_refill |-> t]
    ELSE [tokens |-> Min(capacity, b.tokens + Max(0, t - b.last_refill) * refill_rate),
          last_refill |-> t]

\* Lines 27-35 of the script: what is stored and what is returned.
TOKEN_BUCKET_LUA(b, capacity, refill_rate, t) ==
    LET r == Refilled(b, capacity, refill_rate, t) IN
    IF r.tokens >= 1
    THEN [ret |-> 1,
          bucket |-> [exists |-> TRUE, tokens |-> r.tokens - 1,
                      last_refill |-> r.last_refill, expire_at |-> rt + KEY_TTL]]
    ELSE [ret |-> 0,
          bucket |-> [exists |-> TRUE, tokens |-> r.tokens,
                      last_refill |-> r.last_refill,
                      expire_at |-> IF Stored(b) THEN b.expire_at ELSE 0]]

\* What the request sees when "await script(...)" raises: no handler is
\* around the call, so the Redis error leaves the dependency and the
\* framework answers 500.
OnRedisError == "500"

\* check_rate_limit: the script is run with the caller's own time.time().
check_rate_limit(p) ==
    /\ calls < MaxCalls
    /\ calls' = calls + 1
    /\ \E redis_ok \in BOOLEAN :
          IF redis_ok
          THEN LET out == TOKEN_BUCKET_LUA(bucket, Capacity, RefillRate, WallClock(p)) IN
               /\ bucket' = out.bucket
               /\ allowed' = IF out.ret = 1 THEN Append(allowed, rt) ELSE allowed
               /\ lresp' = [redis_ok |-> TRUE,
                            outcome |-> IF out.ret = 1 THEN "pass" ELSE "429"]
          ELSE /\ lresp' = [redis_ok |-> FALSE, outcome |-> OnRedisError]
               /\ UNCHANGED <<bucket, allowed>>
    /\ rt' = rt
    /\ UNCHANGED <<ingestVars, searchVars, lockVars, jobVars, breakerVars, scoreVars, twinVars, routeVars, productVars>>

\* A second passes.
Second ==
    /\ rt < MaxClock
    /\ rt' = rt + 1
    /\ UNCHANGED <<bucket, allowed, calls, lresp>>
    /\ UNCHANGED <<ingestVars, searchVars, lockVars, jobVars, breakerVars, scoreVars, twinVars, routeVars, productVars>>

\* The key stays quiet for its whole TTL.
Quiet ==
    /\ rt <= MaxClock
    /\ rt' = rt + KEY_TTL
    /\ UNCHANGED <<bucket, allowed, calls, lresp>>
    /\ UNCHANGED <<ingestVars, searchVars, lockVars, jobVars, breakerVars, scoreVars, twinVars, routeVars, productVars>>

LimiterInit ==
    /\ bucket = NoBucket
    /\ rt = 0
    /\ allowed = <<>>
    /\ calls = 0
    /\ lresp = [redis_ok |-> TRUE, outcome |-> "none"]

LimiterNext ==
    \/ \E p \in Procs : check_rate_limit(p)
    \/ Second
    \/ Quiet

(***************************************************************************)
(* Part VIII.  catalyst core/limiter.py: its token-bucket script, run on a *)
(* key of its own with the arguments the ingestion script is run with.     *)
(***************************************************************************)
\* TOKEN_BUCKET_LUA of catalyst: nothing is written when the call is denied,
\* and the key lives 120 seconds from the last allowed call.
CATALYST_TOKEN_BUCKET_LUA(b, capacity, refill_rate, t) ==
    LET tokens0 == IF Stored(b) THEN b.tokens ELSE capacity
        last_refill == IF Stored(b) THEN b.last_refill ELSE t
        elapsed == Max(0, t - last_refill)
        tokens == Min(capacity, tokens0 + elapsed * refill_rate)
    IN  IF tokens >= 1
        THEN [ret |-> 1,
              bucket |-> [exists |-> TRUE, tokens |-> tokens - 1, last_refill |-> t,
                          expire_at |-> rt + CATALYST_KEY_TTL]]
        ELSE [ret |-> 0, bucket |-> IF Stored(b) THEN b ELSE NoBucket]

\* One call, given to both scripts.
TwinCall(p) ==
    /\ calls < MaxCalls
    /\ calls' = calls + 1
    /\ LET out == TOKEN_BUCKET_LUA(bucket, Capacity, RefillRate, WallClock(p))
           cat == CATALYST_TOKEN_BUCKET_LUA(cbucket, Capacity, RefillRate, WallClock(p))
       IN  /\ bucket' = out.bucket
           /\ allowed' = IF out.ret = 1 THEN Append(allowed, rt) ELSE allowed
           /\ lresp' = [redis_ok |-> TRUE,
                        outcome |-> IF out.ret = 1 THEN "pass" ELSE "429"]
           /\ cbucket' = cat.bucket
           /\ cret' = IF cat.ret = 1 THEN "pass" ELSE "429"
    /\ rt' = rt
    /\ UNCHANGED <<ingestVars, searchVars, lockVars, jobVars, breakerVars, scoreVars, routeVars, productVars>>

\* The keys stay quiet for the TTL of the catalyst key.
CatalystQuiet ==
    /\ rt <= MaxClock
    /\ rt' = rt + CATALYST_KEY_TTL
    /\ UNCHANGED <<bucket, allowed, calls, lresp>>
    /\ UNCHANGED <<ingestVars, searchVars, lockVars, jobVars, breakerVars, scoreVars, twinVars, routeVars, productVars>>

TwinInit ==
    /\ cbucket = NoBucket
    /\ cret = "none"

TwinNext ==
    \/ \E p \in Procs : TwinCall(p)
    \/ Second
    \/ Quiet
    \/ CatalystQuiet

(***************************************************************************)
(* Part X.  catalyst services/search.py: search_products and its Redis     *)
(* cache, for one cache_key.  es_failed records whether the value came out *)
(* of a query that raised.                                                 *)
(***************************************************************************)
\* The hits of the query in the products index, best first.
ProductHits == <<"d1", "d2", "d3">>

NoCache == [present |-> FALSE, value |-> <<>>, es_failed |-> FALSE]

\* _es_query: the hits, or [] when elastic.search raises.
es_query(es_up, top_n) == IF es_up THEN Top(ProductHits, top_n) ELSE <<>>

\* search_products, from the cache check to the cache write.
search_products(limit) ==
    /\ IF pcache.present
       THEN /\ presp' = [status |-> "cache_hit", results |-> pcache.value,
                         es_failed |-> pcache.es_failed]
            /\ pcache' = pcache
       ELSE LET es_results == es_query(pes, RETRIEVAL_MIN) IN
            \E reranked \in Reorderings(es_results), redis_ok \in BOOLEAN :
               LET limited == Top(reranked, limit) IN
               /\ presp' = [status |-> "ok", results |-> limited, es_failed |-> ~pes]
               /\ pcache' = IF redis_ok
                            THEN [present |-> TRUE, value |-> limited, es_failed |-> ~pes]
                            ELSE pcache
    /\ pes' = pes
    /\ UNCHANGED <<ingestVars, searchVars, lockVars, limiterVars, jobVars, breakerVars,
                   scoreVars, twinVars, routeVars>>

\* Elasticsearch goes down, or comes back.
EsFlips ==
    /\ pes' = ~pes
    /\ UNCHANGED <<pcache, presp>>
    /\ UNCHANGED <<ingestVars, searchVars, lockVars, limiterVars, jobVars, breakerVars,
                   scoreVars, twinVars, routeVars>>

\* The TTL of the key runs out.
CacheExpires ==
    /\ pcache.present
    /\ pcache' = NoCache
    /\ UNCHANGED <<pes, presp>>
    /\ UNCHANGED <<ingestVars, searchVars, lockVars, limiterVars, jobVars, breakerVars,
                   scoreVars, twinVars, routeVars>>

ProductInit ==
    /\ pcache = NoCache
    /\ pes = TRUE
    /\ presp = [status |-> "none", results |-> <<>>, es_failed |-> FALSE]

ProductNext ==
    \/ \E limit \in 1..MaxLimit : search_products(limit)
    \/ EsFlips
    \/ CacheExpires

\* No record is on the openstream topic.
RouteInit == ostopic = <<>>

Init ==
    IngestInit /\ SearchInit /\ LockInit /\ LimiterInit /\ JobInit /\ BreakerInit
    /\ ScoreInit /\ TwinInit /\ RouteInit /\ ProductInit

\* The pass-1 consumer, without faults, fed the Submissions of S.
Pass1(S) ==
    \/ \E s \in S : ingest_content(s)
    \/ Poll
    \/ UpsertOk
    \/ InsertOk
    \/ Commit

\* What can go wrong in pass 1.
Pass1Faults ==
    \/ HandlerRaises
    \/ ConsumerRestart

\* One oplog worker.
Worker(w) ==
    \/ ClaimSelect(w)
    \/ ClaimUpdate(w)
    \/ execute_job(w)
    \/ MarkCompleted(w)
    \/ MarkRaises(w)
    \/ handle_failure(w)
    \/ FailureRaises(w)
    \/ WorkerCrash(w)

\* A worker whose process stays up and whose database answers.
WorkerSteps(w) ==
    \/ ClaimSelect(w)
    \/ ClaimUpdate(w)
    \/ execute_job(w)
    \/ MarkCompleted(w)
    \/ handle_failure(w)

\* Pass 1 and one oplog worker.
Next ==
    \/ Pass1(Submissions)
    \/ Worker("w1")
    \/ Tick

Spec == Init /\ [][Next]_vars

\* Pass 1 with its faults (a handler that raises, redelivery after a restart)
\* and one oplog worker that stays up.
ReplayNext ==
    \/ Pass1(Submissions)
    \/ Pass1Faults
    \/ WorkerSteps("w1")
    \/ Tick

ReplaySpec == Init /\ [][ReplayNext]_vars

\* The status protocol of ai_oplog does not read the payload: the concurrent
\* workers are fed plain embed Submissions.
WorkerSubmissions == {s \in Submissions : s.text # 0 /\ ~s.enrichments}

\* Pass 1 and all the oplog workers.
WorkerNext ==
    \/ Pass1(WorkerSubmissions)
    \/ \E w \in Workers : Worker(w)
    \/ Tick

WorkerSpec == Init /\ [][WorkerNext]_vars

\* Pass 1 and one oplog worker whose process stays up, while statements on
\* its database connection may raise.
BatchNext ==
    \/ Pass1(WorkerSubmissions)
    \/ WorkerSteps("w1")
    \/ MarkRaises("w1")
    \/ FailureRaises("w1")
    \/ Tick

BatchSpec == Init /\ [][BatchNext]_vars

LockSpec == Init /\ [][LockNext]_vars

\* The highlight workers while no worker process dies and every request
\* is for the video v2.
HandlerNext ==
    \/ \E w \in HWorkers : Receive(w, "v2")
    \/ \E w \in HWorkers : acquire(w)
    \/ \E w \in HWorkers : StartJob(w)
    \/ \E w \in HWorkers : JobEnds(w)
    \/ \E w \in HWorkers : JobTimeout(w)
    \/ \E w \in HWorkers : Cancel(w)
    \/ \E w \in HWorkers : Emit(w)
    \/ \E w \in HWorkers : release(w)
    \/ HTick

HandlerSpec == Init /\ [][HandlerNext]_vars

\* The highlight workers with crashes and redelivery, a bus that takes every
\* event and no shutdown; every request is for the video v2.
CrashNext ==
    \/ \E w \in HWorkers : Receive(w, "v2")
    \/ \E w \in HWorkers : acquire(w)
    \/ \E w \in HWorkers : StartJob(w)
    \/ \E w \in HWorkers : JobEnds(w)
    \/ \E w \in HWorkers : JobTimeout(w)
    \/ \E w \in HWorkers : EmitOk(w)
    \/ \E w \in HWorkers : release(w)
    \/ \E w \in HWorkers : HCrashHandling(w)
    \/ \E w \in HWorkers, i \in 1..Len(hlog) : Redeliver(w, i)
    \/ HTick

\* Every worker keeps taking its next step, requests left uncommitted are
\* redelivered, and time passes.  A crash is never forced.
FairCrashSpec ==
    /\ Init
    /\ [][CrashNext]_vars
    /\ \A w \in HWorkers :
          WF_vars(acquire(w) \/ StartJob(w) \/ JobEnds(w) \/ JobTimeout(w)
                  \/ EmitOk(w) \/ release(w))
    /\ WF_vars(\E w \in HWorkers, i \in 1..Len(hlog) : Redeliver(w, i))
    /\ WF_vars(HTick)

\* The Submissions that need no summary.
SearchSubmissions == {s \in Submissions : ~s.enrichments}

\* Searches while pass 1 and one worker run.
SearchNext ==
    \/ Pass1(SearchSubmissions)
    \/ WorkerSteps("w1")
    \/ Tick
    \/ \E req \in Requests : search_content(req)
    \/ SearchFails
    \/ \E match \in DocMatches : search(match)
    \/ rerank

SearchSpec == Init /\ [][SearchNext]_vars

\* Searches of an index that is not being written.
RankNext ==
    \/ \E req \in Requests : search_content(req)
    \/ SearchFails
    \/ \E match \in RankMatches : search(match)
    \/ rerank

RankSpec == Init /\ [][RankNext]_vars

LimiterSpec == Init /\ [][LimiterNext]_vars

JobSpec == Init /\ [][JobNext]_vars

BreakerSpec == Init /\ [][BreakerNext]_vars

ScoreSpec == Init /\ [][ScoreNext]_vars

TwinSpec == Init /\ [][TwinNext]_vars

ProductSpec == Init /\ [][ProductNext]_vars

\* Searches keep arriving, calls return, and a reranker that is down comes
\* back.
FairBreakerSpec ==
    /\ Init
    /\ [][BreakerNext]_vars
    /\ WF_vars(\E q \in Searches, hits \in EsHits \ {<<>>}, top_n \in 1..MaxLimit :
                  RerankStart(q, hits, top_n))
    /\ WF_vars(\E q \in Searches : RerankOk(q))
    /\ WF_vars(\E q \in Searches : RerankFails(q))
    /\ WF_vars(Recover)

\* The workers under the scheduling the code gives them: every worker's loop
\* keeps polling, pass 1 keeps consuming, time passes.  A crash is never forced.
FairWorkerSpec ==
    /\ WorkerSpec
    /\ \A w \in Workers : WF_vars(WorkerSteps(w))
    /\ WF_vars(Pass1(WorkerSubmissions))
    /\ WF_vars(Tick)

(***************************************************************************)
(* Part IX.  POST /ingest chooses the topic by source_app; consume()       *)
(* subscribes to settings.KAFKA_TOPIC.  topic is KAFKA_TOPIC.              *)
(***************************************************************************)
SourceApps == {"blog", "openstream"}

\* topic = settings.KAFKA_TOPIC; if payload.source_app == "openstream": ...
TopicFor(source_app) ==
    IF source_app = "openstream" THEN "OPENSTREAM_KAFKA_TOPIC" ELSE "KAFKA_TOPIC"

\* AIOKafkaConsumer(settings.KAFKA_TOPIC, ...)
Subscription == "KAFKA_TOPIC"

\* What the openstream application submits: a text for an entity of its own.
OpenstreamSubmissions ==
    {[entity_id |-> "e2", text |-> 1, enrichments |-> FALSE, semantic |-> FALSE]}

\* POST /ingest answers queued once the record is on the topic chosen.
ingest_routed(s, source_app) ==
    IF TopicFor(source_app) = Subscription
    THEN /\ ingest_content(s)
         /\ ostopic' = ostopic
    ELSE /\ Len(ostopic) < MaxMsgs
         /\ ostopic' = Append(ostopic, s)
         /\ UNCHANGED <<ingestVars, searchVars, lockVars, limiterVars, jobVars,
                        breakerVars, scoreVars, twinVars, productVars>>

\* The ingestion service without faults: the endpoint, the pass-1 consumer
\* and one oplog worker.
RouteNext ==
    \/ \E s \in WorkerSubmissions : ingest_routed(s, "blog")
    \/ \E s \in OpenstreamSubmissions : ingest_routed(s, "openstream")
    \/ Poll
    \/ UpsertOk
    \/ InsertOk
    \/ Commit
    \/ WorkerSteps("w1")
    \/ Tick

\* The consumer and the worker keep running and time passes.
FairRouteSpec ==
    /\ Init
    /\ [][RouteNext]_vars
    /\ WF_vars(Poll \/ UpsertOk \/ InsertOk \/ Commit)
    /\ WF_vars(WorkerSteps("w1"))
    /\ WF_vars(Tick)

(***************************************************************************)
(* Claims about the ingestion pipeline.                                    *)
(***************************************************************************)
Terminal == {"COMPLETED", "FAILED"}

StatusEdges ==
    { <<"PENDING", "PROCESSING">>, <<"PROCESSING", "RETRY">>,
      <<"RETRY", "PROCESSING">>, <<"PROCESSING", "COMPLETED">>,
      <<"PROCESSING", "FAILED">> }

\* C1: every step leaves each row's status alone or moves it along an edge of
\* PENDING -> PROCESSING -> (RETRY -> PROCESSING)* -> (COMPLETED | FAILED), and
\* a row is created PENDING; so COMPLETED and FAILED are never left and RETRY
\* is entered from PROCESSING only.
C1_StatusOrder ==
    [][\A r \in 1..Len(oplog') :
          IF r \in RowIds
          THEN \/ oplog'[r].status = oplog[r].status
               \/ <<oplog[r].status, oplog'[r].status>> \in StatusEdges
          ELSE oplog'[r].status = "PENDING"]_vars

\* A row that went through RETRY and was completed while both workers ran.
C1_Witness ==
    \E r \in RowIds : oplog[r].status = "COMPLETED" /\ oplog[r].retry_count >= 1

BatchIds(w) == {batch[w][i].id : i \in 1..Len(batch[w])}

Holders(r) == {w \in Workers : r \in BatchIds(w)}

\* C2 as stated: concurrent claims are disjoint and every row in PROCESSING
\* has exactly one worker executing it.
C2_ExactlyOneExecutor ==
    /\ \A w1, w2 \in Workers : w1 # w2 => BatchIds(w1) \cap BatchIds(w2) = {}
    /\ \A r \in RowIds :
          oplog[r].status = "PROCESSING" => Cardinality(Holders(r)) = 1

\* C2 as amended: the rows locked or returned by concurrent claim statements
\* are pairwise disjoint, every claimed row is in PROCESSING, and a row in
\* PROCESSING is held (and so executed) by at most one worker.
C2_AtMostOneExecutor ==
    /\ \A w1, w2 \in Workers :
          w1 # w2 => /\ BatchIds(w1) \cap BatchIds(w2) = {}
                     /\ rowlock[w1] \cap rowlock[w2] = {}
    /\ \A w \in Workers : \A r \in BatchIds(w) : oplog[r].status = "PROCESSING"
    /\ \A r \in RowIds :
          oplog[r].status = "PROCESSING" => Cardinality(Holders(r)) <= 1

\* Two workers hold claimed rows at the same time.
C2_Witness == \A w \in Workers : batch[w] # <<>>

\* C3: every row pass 1 inserted is eventually COMPLETED or FAILED, whatever
\* crashes in between.
C3_AtLeastOnce ==
    \A r \in 1..MaxMsgs :
        (r \in RowIds) ~> (r \in RowIds /\ oplog[r].status \in Terminal)

\* C10: there is a cap K on the retries: a row that has failed K times is
\* FAILED (and so never claimed again).
C10_RetryCap ==
    \E K \in 1..MaxRetry :
        \A r \in RowIds : oplog[r].retry_count >= K => oplog[r].status = "FAILED"

\* C5: every offset below the committed offset had its document upsert and
\* its oplog insert succeed.
C5_CommitOnlySucceeded == \A k \in 1..committed : k \in done

RowKey(row) == <<row.entity_id, row.task_type>>

SubmissionKey(s) == <<s.entity_id, IF s.enrichments THEN "enrich" ELSE "embed">>

OpenRows(key) ==
    {r \in RowIds : RowKey(oplog[r]) = key /\ oplog[r].status # "COMPLETED"}

\* C6: when the Submissions of the topic have distinct keys, however often
\* they are redelivered there is at most one row that is not COMPLETED per
\* (entity_id, target_index, task_type).
C6_ReplayInsertsNoRow ==
    (\A i, j \in 1..Len(topic) :
        i # j => SubmissionKey(topic[i]) # SubmissionKey(topic[j]))
    => \A r \in RowIds : Cardinality(OpenRows(RowKey(oplog[r]))) <= 1

\* C7: the upsert of a redelivered record (one whose upsert and insert had
\* already succeeded) leaves a ready document ready, with its chunks.
C7_ReplayKeepsReady ==
    [][(cpc = "upsert" /\ position \in done)
        => \A e \in Entities :
              docs[e].status = "ready"
              => docs'[e].status = "ready" /\ docs'[e].chunks # <<>>]_vars

DocGood(doc) ==
    /\ doc.status = "ready"
    /\ doc.chunks # <<>>
    /\ \A i \in 1..Len(doc.chunks) : doc.chunks[i] = EMBEDDING_DIMS

\* C8 as stated: at the step that marks a row COMPLETED its document is
\* ready, with a non-empty chunks list of EMBEDDING_DIMS vectors.
C8_ReadyWhenCompleted ==
    [][\A r \in RowIds :
          (oplog[r].status # "COMPLETED" /\ oplog'[r].status = "COMPLETED")
          => DocGood(docs'[oplog[r].entity_id])]_vars

\* C8 as amended: when execute_job returns for a row its document is ready
\* with a non-empty chunks list of EMBEDDING_DIMS vectors; a document is never
\* ready otherwise; and when the row is marked COMPLETED the document is
\* still so unless pass 1 has written it again in between.
C8_ReadyWhenWritten ==
    /\ [][\A w \in Workers :
            (wpc[w] = "run" /\ wpc'[w] = "mark")
            => DocGood(docs'[oplog[Cur(w).id].entity_id])]_vars
    /\ [][\A r \in RowIds :
            (oplog[r].status # "COMPLETED" /\ oplog'[r].status = "COMPLETED")
            => \/ DocGood(docs'[oplog[r].entity_id])
               \/ docs'[oplog[r].entity_id].status = "processing_vectors"]_vars
    /\ [](\A e \in Entities : docs[e].status = "ready" => DocGood(docs[e]))

\* A row is COMPLETED and its document is ready with its vectors.
C8_Witness ==
    \E r \in RowIds :
        oplog[r].status = "COMPLETED" /\ DocGood(docs[oplog[r].entity_id])

\* C11: a step that puts a row into RETRY adds exactly 1 to retry_count,
\* records an error_message and sets next_attempt_at = now + 2^retry_count * 60
\* with the new retry_count, which is twice the delay of the row's previous
\* failure; and a row is claimed only when its next_attempt_at has come.
C11_Backoff ==
    [][\A r \in RowIds :
          /\ (oplog[r].status # "RETRY" /\ oplog'[r].status = "RETRY")
             => /\ oplog[r].status = "PROCESSING"
                /\ oplog'[r].retry_count = oplog[r].retry_count + 1
                /\ oplog'[r].error_message # ""
                /\ oplog'[r].next_attempt_at - now
                      = Pow2(oplog'[r].retry_count) * BACKOFF_BASE_SECONDS
                /\ oplog[r].retry_count >= 1
                   => oplog'[r].next_attempt_at - now
                         = 2 * (Pow2(oplog[r].retry_count) * BACKOFF_BASE_SECONDS)
          /\ (oplog[r].status # "PROCESSING" /\ oplog'[r].status = "PROCESSING")
             => oplog[r].next_attempt_at <= now]_vars

\* A row has failed twice in a row and waits for its second retry.
C11_Witness ==
    \E r \in RowIds : oplog[r].status = "RETRY" /\ oplog[r].retry_count >= 2

\* The document one pass 1 followed by one pass 2 leaves for a Submission.
FinalDocument(s) ==
    IF s.text = 0 THEN doc_body(s)
    ELSE [doc_body(s) EXCEPT !.status = "ready",
                             !.chunks = NestedChunks(split_text(s.text), EMBEDDING_DIMS)]

\* Equal in status, content and chunks (the summary is the gateway's answer).
SameDocument(a, b) ==
    a.status = b.status /\ a.content = b.content /\ a.chunks = b.chunks

\* Pass 1 has consumed and committed the whole topic and no row is open.
Settled ==
    /\ cpc = "idle"
    /\ position = Len(topic)
    /\ committed = Len(topic)
    /\ \A r \in RowIds : oplog[r].status = "COMPLETED"

\* C12: when a Submission is the only one of its entity, pass 1 has processed
\* it at least once and everything is settled, its document is the one a
\* single pass 1 and pass 2 give, however often pass 1 replayed it.
C12_SameFinalDocument ==
    \A s \in Submissions :
        ( /\ \E i \in done : topic[i] = s
          /\ \A i \in 1..Len(topic) :
                topic[i].entity_id = s.entity_id => topic[i] = s
          /\ Settled )
        => SameDocument(docs[s.entity_id], FinalDocument(s))

\* C13: every COMPLETED row has a result event for its entity on the results
\* topic, and an event is published only in a step that leaves the document
\* ready.
C13_EventPerCompletedRow ==
    /\ [](\A r \in RowIds :
            oplog[r].status = "COMPLETED"
            => \E i \in 1..Len(results) : results[i].entity_id = oplog[r].entity_id)
    /\ [][\A i \in 1..Len(results') :
            i > Len(results) => docs'[results'[i].entity_id].status = "ready"]_vars

\* C14: an execute_job in which an upstream call failed (embedding, summary
\* or document-store update) ends in the except branch, which runs
\* handle_failure (RETRY with backoff); it does not go on to COMPLETED and it
\* leaves the document as it was.
C14_UpstreamFailureRetries ==
    [][\A w \in Workers :
          (wpc[w] = "run" /\ wpc'[w] \in {"mark", "fail"} /\ failed' # {})
          => wpc'[w] = "fail" /\ docs' = docs]_vars

(***************************************************************************)
(* Claims about search.                                                    *)
(***************************************************************************)
NoRepeat(s) == \A i, j \in 1..Len(s) : i # j => s[i] # s[j]

\* C15: every hit elastic.search returns is a document whose status is
\* ready when the query runs, and every result of the response is one of
\* these hits.
C15_OnlyReadyHits ==
    /\ [][(spc = "query" /\ spc' # "query")
            => \A i \in 1..Len(sretrieved') :
                  StoredDoc(sretrieved'[i]).status = "ready"]_vars
    /\ [](Range(sresp.results) \subseteq Range(sretrieved))

\* A search returned a ready document and left out a matching one that was
\* not ready.
C15_Witness ==
    /\ spc = "idle"
    /\ sresp.status = 200
    /\ sresp.results # <<>>
    /\ \E i \in 1..Len(smatch) :
          /\ smatch[i] \notin Range(sretrieved)
          /\ StoredDoc(smatch[i]).status = "processing_vectors"

Running(v) == {w \in HWorkers : hpc[w] = "running" /\ hvideo[w] = v}

\* C4: for every video at most one worker at a time runs the pipeline.
C4_OneRunnerPerVideo == \A v \in Videos : Cardinality(Running(v)) <= 1

\* C9: the calls allowed within any interval of T seconds number at most
\* C + R * T (the interval from the i-th allowed call to the j-th).
C9_AllowedWithinBound ==
    \A i, j \in 1..Len(allowed) :
        i <= j => (j - i + 1) <= Capacity + RefillRate * (allowed[j] - allowed[i])


\* C17: a check_rate_limit call whose Redis call failed lets the request
\* pass; it answers neither 429 nor 5xx.
C17_FailsOpen == ~lresp.redis_ok => lresp.outcome = "pass"


\* The key of video v is present and was set by worker w.
Holds(w, v) == lock[v].held /\ hnow < lock[v].expires_at /\ lock[v].by = w

\* C18: a release by a worker that does not hold the lock of its video
\* leaves the lock of the worker that holds it as it is.
C18_ReleaseByNonHolderIsNoOp ==
    [][\A w \in HWorkers :
          (/\ hpc[w] = "release"
           /\ hpc'[w] = "idle"
           /\ ~hlog'[hmid[w]].crashed
           /\ \E w2 \in HWorkers \ {w} : Holds(w2, hvideo[w]))
          => lock'[hvideo[w]] = lock[hvideo[w]]]_vars

InJob == {"locked", "running", "emit", "release"}

\* C19: a worker that acquired the lock leaves its job only through the
\* finally block, whatever the outcome, and after that step the key of its
\* video is gone and the offset is committed.
C19_ReleasedOnEveryOutcome ==
    [][\A w \in HWorkers :
          (hpc[w] \in InJob /\ hpc'[w] \notin InJob /\ ~hlog'[hmid[w]].crashed)
          => /\ hpc[w] = "release"
             /\ hlog[hmid[w]].outcome # "none"
             /\ ~lock'[hvideo[w]].held
             /\ hlog'[hmid[w]].committed]_vars

\* A job that timed out and one with no clips have both gone through the
\* finally block, and no key is left.
C19_Witness ==
    /\ \A outcome \in {"timeout", "empty"} :
          \E i \in 1..Len(hlog) :
             /\ hlog[i].outcome = outcome
             /\ hlog[i].committed
    /\ \A w \in HWorkers : hpc[w] = "idle"
    /\ \A v \in Videos : ~lock[v].held

\* Two finished requests that were read at the same time for one video.
RacedPairs ==
    {p \in (1..Len(hlog)) \X (1..Len(hlog)) :
        /\ hlog[p[1]].raced = p[2]
        /\ hlog[p[2]].raced = p[1]
        /\ hlog[p[1]].committed
        /\ hlog[p[2]].committed}

C25_CancelReleasesWithoutEvent ==
    [][\A w \in HWorkers :
          (hpc[w] = "running" /\ hlog'[hmid[w]].outcome = "cancelled")
          => /\ ~lock'[hvideo[w]].held
             /\ hlog'[hmid[w]].events = <<>>]_vars

\* C26: the offset of a request whose lock was acquired is committed only
\* after an outcome event has gone out for it.
C26_CommitOnlyAfterEvent ==
    \A i \in 1..Len(hlog) :
       (hlog[i].acquired /\ hlog[i].committed) => hlog[i].events # <<>>

\* C36: every request the group consumed is followed by an outcome event
\* for its video.
C36_EveryRequestGetsAnOutcome ==
    \A i \in 1..MaxRequests :
        (i <= Len(hlog))
        ~> (/\ i <= Len(hlog)
            /\ \E k \in 1..Len(hlog) :
                  hlog[k].video = hlog[i].video /\ hlog[k].events # <<>>)

\* C37: a request whose lock was acquired and whose handling ended without
\* a shutdown has exactly one event, on the complete, the degraded or the
\* failed topic; a job that raised has it on the failed topic.
C37_ExactlyOneOutcomeEvent ==
    \A i \in 1..Len(hlog) :
       (hlog[i].acquired /\ hlog[i].committed /\ hlog[i].outcome # "cancelled")
       => /\ Len(hlog[i].events) = 1
          /\ hlog[i].events[1] \in {"complete", "degraded", "failed"}
          /\ hlog[i].outcome \in {"raised", "timeout"} => hlog[i].events = <<"failed">>

(***************************************************************************)
(* Claims about the highlight job.                                         *)
(***************************************************************************)
\* C21: a result is sent on the complete topic exactly when it has no
\* warnings and at least one clip, and on the degraded topic otherwise.
C21_CompleteIffClipsAndNoWarnings ==
    (jpc = "emitted" /\ ~jres.raised)
    => /\ jres.topic = "complete" <=> (jres.warnings = <<>> /\ jres.clipCount >= 1)
       /\ jres.topic = "degraded" <=> ~(jres.warnings = <<>> /\ jres.clipCount >= 1)

C23_PartialExtractionIsDegraded ==
    (/\ jpc = "emitted"
     /\ ~jres.raised
     /\ jres.extracted # {}
     /\ jres.extracted # 1..Len(jclips))
    => /\ jres.uploaded = jres.extracted
       /\ jres.clipCount = Cardinality(jres.extracted)
       /\ jres.topic = "degraded"
       /\ jres.warnings # <<>>

RECURSIVE SumDurations(_)
SumDurations(clips) ==
    IF clips = <<>> THEN 0
    ELSE Head(clips).end - Head(clips).start + SumDurations(Tail(clips))

\* C27: every clip consolidate_clips returns starts at 0 or later and lasts
\* at least min_duration and at most max_duration; at most max_clips clips
\* are returned, so the durations add up to at most max_clips * max_duration.
C27_ClipDurationsWithinBounds ==
    /\ \A k \in 1..Len(jclips) :
          /\ jclips[k].start >= 0
          /\ jin.cfg.min_duration <= jclips[k].end - jclips[k].start
          /\ jclips[k].end - jclips[k].start <= jin.cfg.max_duration
    /\ Len(jclips) <= jin.cfg.max_clips
    /\ SumDurations(jclips) <= jin.cfg.max_clips * jin.cfg.max_duration

\* Two clips came back, one widened to min_duration at the start of the
\* video and one cut to max_duration, and a third was dropped by the cap.
C27_Witness ==
    /\ jpc = "clips"
    /\ Len(jclips) = 2
    /\ jin.cfg.min_duration < jin.cfg.max_duration
    /\ jclips[1].start = 0
    /\ jclips[1].end = jin.cfg.min_duration
    /\ jclips[2].end - jclips[2].start = jin.cfg.max_duration
    /\ Cardinality(DOMAIN jin.qualified) >= 3

\* C34: when the job has written highlights.json, that was its last write,
\* after the file of every extracted clip and every thumbnail; the manifest
\* has one entry per extracted clip, in start order, and none for a clip
\* that was skipped; clipCount is the number of entries.
C34_ManifestIsExtractedClips ==
    (jpc \in {"returned", "emitted"} /\ jres.manifest # <<>>)
    => /\ jres.written[Len(jres.written)].kind = "json"
       /\ \A k \in 1..(Len(jres.written) - 1) : jres.written[k].kind # "json"
       /\ \A i \in jres.extracted :
             \E k \in 1..(Len(jres.written) - 1) :
                jres.written[k] = [kind |-> "clip", index |-> i - 1]
       /\ {jres.manifest[k].index + 1 : k \in 1..Len(jres.manifest)} = jres.extracted
       /\ Len(jres.manifest) = Cardinality(jres.extracted)
       /\ \A k \in 1..Len(jres.manifest) :
             LET e == jres.manifest[k]
             IN  e.start = jclips[e.index + 1].start /\ e.end = jclips[e.index + 1].end
       /\ \A k \in 1..(Len(jres.manifest) - 1) :
             jres.manifest[k].start <= jres.manifest[k + 1].start
       /\ jres.clipCount = Len(jres.manifest)
       /\ ~jres.raised

\* Of two consolidated clips the first was skipped; the second was uploaded
\* with its thumbnail and is the only entry of the manifest.
C34_Witness ==
    /\ jpc = "emitted"
    /\ Len(jclips) = 2
    /\ jres.extracted = {2}
    /\ Len(jres.manifest) = 1
    /\ Len(jres.written) = 3

\* C38: the peak_second of every clip consolidate_clips returns is a
\* qualified second inside the clip whose qualified score is the clip's score.
C38_PeakSecondIsArgmaxInsideClip ==
    \A k \in 1..Len(jclips) :
        /\ jclips[k].peak_second \in DOMAIN jin.qualified
        /\ jclips[k].start <= jclips[k].peak_second
        /\ jclips[k].peak_second <= jclips[k].end
        /\ jin.qualified[jclips[k].peak_second] = jclips[k].score

\* C28: of two clips consolidate_clips returns, the later starts more than
\* min_gap after the earlier ends.
C28_ClipsApartByMinGap ==
    \A k \in 1..(Len(jclips) - 1) :
       jclips[k + 1].start - jclips[k].end > jin.cfg.min_gap


(***************************************************************************)
(* Claims about the rerank circuit breaker.                                *)
(***************************************************************************)
\* C29: the breaker is open exactly when the last 3 or more reranker calls
\* to return have all failed; the failure count is the number of calls that
\* failed since the last success; while the breaker is closed a search with
\* hits calls the reranker; a call that fails returns the hits it was given,
\* cut to the limit.
C29_OpensAfterThreeFailuresInARow ==
    /\ [](ropen <=> rstreak >= CIRCUIT_OPEN_THRESHOLD)
    /\ [](rfail = rstreak)
    /\ [][\A q \in Searches :
             (rq[q].pc = "idle" /\ rq'[q] # rq[q] /\ rq'[q].hits # <<>>)
             => (rq'[q].called <=> ~ropen)]_vars
    /\ [][\A q \in Searches :
             (rq[q].pc = "calling" /\ rq'[q].pc = "idle" /\ ~rup)
             => rq'[q].results = Top(rq[q].hits, rq[q].top_n)]_vars

\* The breaker has opened on the third failure in a row while another
\* search's call is still out.
C29_Witness ==
    /\ ropen
    /\ rstreak = CIRCUIT_OPEN_THRESHOLD
    /\ \E q \in Searches : rq[q].pc = "calling"

\* C30: an open breaker closes again once the reranker answers.
C30_OpenBreakerCloses == ropen ~> ~ropen


WindowOf(sig, sec) ==
    LET scores == scin.signal_outputs[sig]
        At(k) == IF k \in DOMAIN scores THEN scores[k] ELSE 0
    IN  CHOOSE m \in {At(sec - 1), At(sec), At(sec + 1)} :
            \A x \in {At(sec - 1), At(sec), At(sec + 1)} : x <= m

WeightOf(sig) ==
    IF sig \in DOMAIN scin.signal_weights THEN scin.signal_weights[sig] ELSE 0

ExactTotal(sec) ==
    WindowOf("audio", sec) * WeightOf("audio") + WindowOf("chat", sec) * WeightOf("chat")

CountedSignals(sec) == {sig \in {"audio", "chat"} : WindowOf(sig, sec) > 100}

\* C33 as stated: every reported entry's total is the weighted sum of the
\* window maxima and its sig_count the number of signals above 0.1.
C33_TotalIsWeightedSum ==
    scpc # "start" =>
        \A sec \in DOMAIN sagg :
            /\ sec \in 0..(scin.duration_seconds - 1)
            /\ sagg[sec].total * 100 = ExactTotal(sec)
            /\ sagg[sec].sig_count = Cardinality(CountedSignals(sec))

\* C33, amended: every reported entry's total is the weighted sum of the
\* window maxima rounded to four decimal places, and its sig_count the
\* number of signals whose window maximum exceeds 0.1.
C33_TotalIsRoundedWeightedSum ==
    scpc # "start" =>
        \A sec \in DOMAIN sagg :
            /\ sec \in 0..(scin.duration_seconds - 1)
            /\ sagg[sec].total * 100 - ExactTotal(sec) \in -50..50
            /\ sagg[sec].sig_count = Cardinality(CountedSignals(sec))

\* An entry whose total was rounded, with a chat signal at exactly 0.1 that
\* is not counted, and an entry for a second the audio signal scored only
\* through the second after it.
C33_Witness ==
    /\ scpc = "scored"
    /\ \E sec \in DOMAIN sagg :
          /\ ExactTotal(sec) % 100 # 0
          /\ WindowOf("chat", sec) = 100
          /\ sagg[sec].sig_count = 1
    /\ \E sec \in DOMAIN sagg :
          sec + 1 \in DOMAIN scin.signal_outputs["audio"] /\ sec \notin DOMAIN scin.signal_outputs["audio"]


(***************************************************************************)
(* Claims about the rows of one batch.                                     *)
(***************************************************************************)
\* C32: when a worker's pass over a batch ends, the rows of the batch other
\* than the one it was working on have been executed and have left
\* PROCESSING, whatever failed for that one row.
C32_OtherRowsLeaveProcessing ==
    [][\A w \in Workers :
          (batch[w] # <<>> /\ batch'[w] = <<>>)
          => \A i \in 2..Len(batch[w]) :
                oplog'[batch[w][i].id].status # "PROCESSING"]_vars


(***************************************************************************)
(* Claims about the two limiter scripts.                                   *)
(***************************************************************************)
\* C35: given the same calls, the catalyst script and the ingestion script
\* return the same decision for every call.
C35_SameDecisions == cret # "none" => cret = lresp.outcome


(***************************************************************************)
(* Claims about the topics of POST /ingest.                                *)
(***************************************************************************)
\* The n-th record of the subscribed topic is read and its document becomes
\* ready.
DefaultRouteReachesReady ==
    \A n \in 1..MaxMsgs :
        (n <= Len(topic))
        ~> (position >= n /\ docs[topic[n].entity_id].status = "ready")

\* C39: every Submission answered with queued, of whichever source_app, is
\* consumed and, having text, has its document reach status ready.
C39_QueuedReachesReady ==
    /\ DefaultRouteReachesReady
    /\ \A n \in 1..MaxMsgs :
          (n <= Len(ostopic))
          ~> (n <= Len(ostopic) /\ docs[ostopic[n].entity_id].status = "ready")


(***************************************************************************)
(* Claims about the cache of search_products.                              *)
(***************************************************************************)
\* C40: the result of a failed Elasticsearch query is never stored under
\* cache_key, and no request made while Elasticsearch answers is served it.
C40_FailureIsNotCached ==
    /\ pcache.present => ~pcache.es_failed
    /\ (presp.status = "cache_hit" /\ pes) => ~presp.es_failed

====
